---- MODULE Spec2Model ----
(***************************************************************************)
(* A model of the OptimusDB Python client (optimusdb_client.py,            *)
(* batch_operations.py, test_metadata_pipeline.py).                        *)
(*                                                                         *)
(* Strings the code takes apart or rebuilds (criteria tokens, SQL          *)
(* literals) are sequences of one-character strings; opaque strings        *)
(* (identifiers, field names of the metadata stores) are TLA+ strings.     *)
(*                                                                         *)
(* The module holds several specifications over one set of variables, one  *)
(* per part of the client; each leaves the variables of the other parts    *)
(* at their initial values.                                                *)
(***************************************************************************)
EXTENDS Integers, Sequences, FiniteSets, TLC

VARIABLES
    \* ---- parse_criteria (optimusdb_client.py:800-816)
    criteria_list,   \* the argument: a sequence of tokens
    p_i,             \* index of the next token the for loop takes
    criteria,        \* the local dict: field -> entry
    p_pc,            \* "loop" | "returned" | "raised"
    p_result,        \* the value returned: <<>> or <<criteria>>
    p_error,         \* the token named by the ValueError
    \* ---- the server's two metadata stores and the clients' clock
    kbmetadata,        \* primary store: _id -> document
    metadata_catalog,  \* secondary (SQL) store: id -> row
    now,               \* the clock datetime.utcnow() reads
    \* ---- update_metadata_fields (optimusdb_client.py:376-430), per client
    u_pc,            \* "idle" | "fetched" | "put_done" | "returned" | "raised"
    u_id,            \* the metadata_id argument
    u_updates,       \* the updates argument
    u_fetched,       \* entries[0] as the fetch delivered it
    u_doc,           \* the local doc, after the merge
    u_sent,          \* the requests the call has sent, in order
    u_err,           \* "" | "notfound" | "transport"
    \* ---- run_pipeline step 7 (test_metadata_pipeline.py:321-366)
    v_pc,            \* "idle" | "orbit_done" | "done" | "crashed"
    v_metadata_id,   \* the metadata _id the pipeline holds
    v_orbit_entry,   \* orbit_entry
    v_sr,            \* sr, the first SQL record
    v_mismatches,    \* the fields reported as MISMATCH
    v_report,        \* "" | "insync" | "mismatch" | "norecords" | "skipped"
    \* ---- wait_for_metadata (optimusdb_client.py:342-374)
    w_pc,            \* "off" | "test" | "query" | "sleep" | "returned" | "raised"
    w_timeout,       \* timeout_seconds
    w_poll,          \* poll_interval
    w_start,         \* start
    w_wake,          \* the time the running sleep ends
    w_log,           \* the queries and sleeps of the call, in order
    w_result,        \* the value returned: an entry or None
    w_err,           \* "" | "transport" | "timeout"
    \* ---- one run of a command line: optimusdb_client.main
    \* (optimusdb_client.py:638-797) or batch_operations.main
    \* (batch_operations.py:129-182)
    c_cmd,           \* the program, the command and its arguments
    c_pc,            \* "start" | "import" | "loop" | "exited"
    c_net,           \* the requests sent, in order, each with its outcome
    c_err,           \* the exception that ended the command, "" if none
    c_msg,           \* the message printed about the input file, "" if none
    c_exit,          \* the exit code, -1 while running
    documents,       \* import_from_json: the documents loaded
    c_i,             \* import_from_json: the loop variable i
    \* ---- verify_48_columns (optimusdb_client.py:478-517)
    s_pc,            \* "off" | "start" | "returned" | "raised"
    s_columns,       \* the 'name' of each record of PRAGMA table_info
    s_sent,          \* the SQL statements the call has sent, in order
    s_result,        \* the dict returned
    \* ---- get_metadata (optimusdb_client.py:315-340)
    g_pc,            \* "off" | "start" | "returned" | "raised"
    g_args,          \* associated_id, metadata_id, criteria
    g_sent,          \* the requests the call has sent, in order
    g_data,          \* the 'data' of the response returned
    \* ---- cleanup_by_pattern (batch_operations.py:100-127)
    k_pc,            \* "off" | "start" | "confirm" | "delete" | "returned" | "raised"
    k_dstype,        \* the dstype argument
    k_stdin,         \* the line typed at the prompt
    k_store,         \* the server's datastores: the ids each one holds
    k_default,       \* the datastore the server takes for a request naming none
    k_documents,     \* the ids the query returned
    k_shown,         \* the count printed in the prompt
    k_sent,          \* the requests sent, in order
    k_msg            \* the last line printed

parseVars == <<criteria_list, p_i, criteria, p_pc, p_result, p_error>>

storeVars == <<kbmetadata, metadata_catalog, now>>

updVars == <<u_pc, u_id, u_updates, u_fetched, u_doc, u_sent, u_err>>

verVars == <<v_pc, v_metadata_id, v_orbit_entry, v_sr, v_mismatches, v_report>>

waitVars == <<w_pc, w_timeout, w_poll, w_start, w_wake, w_log, w_result, w_err>>

cliVars == <<c_cmd, c_pc, c_net, c_err, c_msg, c_exit, documents, c_i>>

schemaVars == <<s_pc, s_columns, s_sent, s_result>>

metaVars == <<g_pc, g_args, g_sent, g_data>>

cleanVars == <<k_pc, k_dstype, k_stdin, k_store, k_default, k_documents, k_shown, k_sent, k_msg>>

vars ==
    <<parseVars, storeVars, updVars, verVars, waitVars, cliVars, schemaVars, metaVars,
      cleanVars>>

\* what the steps of each part leave alone
notParse ==
    <<storeVars, updVars, verVars, waitVars, cliVars, schemaVars, metaVars,
      cleanVars>>

notUpdate ==
    <<parseVars, verVars, waitVars, cliVars, schemaVars, metaVars,
      cleanVars>>

notVerify ==
    <<parseVars, updVars, waitVars, cliVars, schemaVars, metaVars,
      cleanVars>>

notWait ==
    <<parseVars, updVars, verVars, cliVars, schemaVars, metaVars,
      cleanVars>>

notCli ==
    <<parseVars, storeVars, updVars, verVars, waitVars, schemaVars, metaVars,
      cleanVars>>

notSchema ==
    <<parseVars, storeVars, updVars, verVars, waitVars, cliVars, metaVars,
      cleanVars>>

notMeta == <<parseVars, updVars, verVars, waitVars, cliVars, schemaVars, cleanVars>>

notClean == <<parseVars, storeVars, updVars, verVars, waitVars, cliVars, schemaVars, metaVars>>

(***************************************************************************)
(* Character strings                                                       *)
(***************************************************************************)
Digits == <<"0", "1", "2", "3", "4", "5", "6", "7", "8", "9">>

IsDigit(c) == \E k \in 1..10 : Digits[k] = c

DigitVal(c) == (CHOOSE k \in 1..10 : Digits[k] = c) - 1

AllDigits(s) == \A k \in 1..Len(s) : IsDigit(s[k])

RECURSIVE NatOf(_)
\* the number a non-empty sequence of decimal digits denotes
NatOf(s) ==
    IF s = <<>> THEN 0
    ELSE 10 * NatOf(SubSeq(s, 1, Len(s) - 1)) + DigitVal(s[Len(s)])

\* position of the first occurrence of character c in s, 0 if there is none
IndexOf(s, c) ==
    IF \E k \in 1..Len(s) : s[k] = c
    THEN CHOOSE k \in 1..Len(s) : s[k] = c /\ \A j \in 1..(k - 1) : s[j] # c
    ELSE 0

RECURSIVE Split(_, _, _)
\* str.split(sep, maxsplit): at most maxsplit cuts, the rest is the last part
Split(s, sep, maxsplit) ==
    LET k == IndexOf(s, sep) IN
    IF maxsplit = 0 \/ k = 0 THEN <<s>>
    ELSE <<SubSeq(s, 1, k - 1)>>
         \o Split(SubSeq(s, k + 1, Len(s)), sep, maxsplit - 1)

RECURSIVE Join(_, _)
\* sep.join(parts)
Join(parts, sep) ==
    IF parts = <<>> THEN <<>>
    ELSE IF Len(parts) = 1 THEN parts[1]
    ELSE parts[1] \o <<sep>> \o Join(Tail(parts), sep)

(***************************************************************************)
(* int(value) and float(value) on the characters of the model's alphabet   *)
(* (digits, sign, decimal point, letters).                                 *)
(***************************************************************************)
HasSign(s) == Len(s) > 0 /\ s[1] \in {"-", "+"}

Unsigned(s) == IF HasSign(s) THEN Tail(s) ELSE s

SignOf(s) == IF Len(s) > 0 /\ s[1] = "-" THEN -1 ELSE 1

\* int(s) succeeds: an optional sign and one or more digits
IntParses(s) == Len(Unsigned(s)) > 0 /\ AllDigits(Unsigned(s))

IntOf(s) == SignOf(s) * NatOf(Unsigned(s))

\* float(s) succeeds: an optional sign, digits with at most one decimal
\* point, at least one digit
FloatParses(s) ==
    LET u == Unsigned(s)
        k == IndexOf(u, ".")
        whole == IF k = 0 THEN u ELSE SubSeq(u, 1, k - 1)
        frac == IF k = 0 THEN <<>> ELSE SubSeq(u, k + 1, Len(u))
    IN /\ AllDigits(whole)
       /\ AllDigits(frac)
       /\ Len(whole) + Len(frac) > 0

RECURSIVE StripZeros(_)
\* a fraction's digits without trailing zeros
StripZeros(s) ==
    IF s # <<>> /\ s[Len(s)] = "0" THEN StripZeros(SubSeq(s, 1, Len(s) - 1))
    ELSE s

\* the value of float(s): num * 10^(-scale), scale minimal
FloatOf(s) ==
    LET u == Unsigned(s)
        k == IndexOf(u, ".")
        whole == IF k = 0 THEN u ELSE SubSeq(u, 1, k - 1)
        frac == StripZeros(IF k = 0 THEN <<>> ELSE SubSeq(u, k + 1, Len(u)))
    IN [num |-> SignOf(s) * NatOf(whole \o frac), scale |-> Len(frac)]

\* JSON values of a criteria mapping
StrValue(s) == [kind |-> "str", str |-> s, num |-> 0, scale |-> 0]

IntValue(n) == [kind |-> "int", str |-> <<>>, num |-> n, scale |-> 0]

FloatValue(f) == [kind |-> "float", str |-> <<>>, num |-> f.num, scale |-> f.scale]

\* a coercion that tries float before int
CoerceFloatFirst(value) ==
    IF FloatParses(value) THEN FloatValue(FloatOf(value))
    ELSE IF IntParses(value) THEN IntValue(IntOf(value))
    ELSE StrValue(value)

\* a coercion that gives up the text of a value that is no number
CoerceDropsText(value) ==
    IF IntParses(value) THEN IntValue(IntOf(value))
    ELSE IF FloatParses(value) THEN FloatValue(FloatOf(value))
    ELSE StrValue(<<>>)

\* lines 809-812: int first, then float, else the string itself
Coerce(value) ==
    IF IntParses(value) THEN IntValue(IntOf(value))
    ELSE IF FloatParses(value) THEN FloatValue(FloatOf(value))
    ELSE StrValue(value)

(***************************************************************************)
(* parse_criteria                                                          *)
(***************************************************************************)
\* the translation of one well-formed token: {field: value} or
\* {field: {"$" + operator: value}}
\* a two-part token whose value is coerced like a three-part one's
PlainEntryCoerced(value) == [form |-> "plain", op |-> <<>>, val |-> Coerce(value)]

PlainEntry(value) == [form |-> "plain", op |-> <<>>, val |-> StrValue(value)]

OpEntry(operator, value) ==
    [form |-> "op", op |-> <<"$">> \o operator, val |-> Coerce(value)]

\* line 804
Parts(item) == Split(item, ":", 2)

\* dict assignment criteria[k] = e
DictSet(d, k, e) == [x \in DOMAIN d \cup {k} |-> IF x = k THEN e ELSE d[x]]

EmptyDict == [x \in {} |-> 0]

\* the tokens the model feeds: 1..MaxSegs segments joined by colons, the
\* first a field name, the second a value, the third an operator, the rest
\* further text; and the empty token
MaxSegs == 4

MaxTokens == 2

FieldNames == {<<"f">>, <<"g">>}

ValueTexts == {<<"7">>, <<"-", "3">>, <<"1", ".", "5">>, <<"a", "b">>, <<>>}

OperatorText == <<"g", "t">>

TailText == <<"x">>

SegsOf(f, v, n) ==
    [k \in 1..n |-> IF k = 1 THEN f
                    ELSE IF k = 2 THEN v
                    ELSE IF k = 3 THEN OperatorText
                    ELSE TailText]

Tokens ==
    {<<>>} \cup
    {Join(SegsOf(f, v, n), ":") : f \in FieldNames, v \in ValueTexts, n \in 1..MaxSegs}

TokenLists == UNION {[1..n -> Tokens] : n \in 0..MaxTokens}

ParseStart(tokens) ==
    /\ criteria_list = tokens
    /\ p_i = 1
    /\ criteria = EmptyDict
    /\ p_pc = "loop"
    /\ p_result = <<>>
    /\ p_error = <<>>

ParseInit == \E tokens \in TokenLists : ParseStart(tokens)

\* parse_criteria not called
ParseRest == ParseStart(<<>>)

\* a loop body that keeps the first entry of a field named again
ItemResultKeepsFirst(crit, item) ==
    LET parts == Parts(item) IN
    IF Len(parts) \in {2, 3} /\ parts[1] \in DOMAIN crit
    THEN [raised |-> FALSE, criteria |-> crit]
    ELSE IF Len(parts) = 2
    THEN [raised |-> FALSE, criteria |-> DictSet(crit, parts[1], PlainEntry(parts[2]))]
    ELSE IF Len(parts) = 3
    THEN [raised |-> FALSE, criteria |-> DictSet(crit, parts[1], OpEntry(parts[3], parts[2]))]
    ELSE [raised |-> TRUE, criteria |-> crit]

\* the body of the for loop, lines 804-815: the dict after the token, or
\* the ValueError
ItemResult(crit, item) ==
    LET parts == Parts(item) IN
    IF Len(parts) = 2
    THEN [raised |-> FALSE, criteria |-> DictSet(crit, parts[1], PlainEntry(parts[2]))]
    ELSE IF Len(parts) = 3
    THEN [raised |-> FALSE, criteria |-> DictSet(crit, parts[1], OpEntry(parts[3], parts[2]))]
    ELSE [raised |-> TRUE, criteria |-> crit]

RECURSIVE ParseFrom(_, _, _)
\* the loop from token k on: the ValueError of the first token that raises,
\* or the list returned at line 816
ParseFrom(crit, tokens, k) ==
    IF k > Len(tokens)
    THEN [raised |-> FALSE, error |-> <<>>,
          result |-> IF DOMAIN crit # {} THEN <<crit>> ELSE <<>>]
    ELSE IF ItemResult(crit, tokens[k]).raised
    THEN [raised |-> TRUE, error |-> tokens[k], result |-> <<>>]
    ELSE ParseFrom(ItemResult(crit, tokens[k]).criteria, tokens, k + 1)

\* parse_criteria as a function of its argument
parse_criteria(tokens) == ParseFrom(EmptyDict, tokens, 1)

\* one iteration of the for loop, lines 803-815
ParseItem ==
    /\ p_pc = "loop"
    /\ p_i <= Len(criteria_list)
    /\ LET item == criteria_list[p_i]
           r == ItemResult(criteria, item)
       IN IF ~r.raised
          THEN /\ criteria' = r.criteria
               /\ p_i' = p_i + 1
               /\ UNCHANGED <<p_pc, p_error>>
          ELSE /\ p_pc' = "raised"
               /\ p_error' = item
               /\ UNCHANGED <<criteria, p_i>>
    /\ UNCHANGED <<criteria_list, p_result, notParse>>

\* line 816
ParseReturn ==
    /\ p_pc = "loop"
    /\ p_i > Len(criteria_list)
    /\ p_pc' = "returned"
    /\ p_result' = IF DOMAIN criteria # {} THEN <<criteria>> ELSE <<>>
    /\ UNCHANGED <<criteria_list, p_i, criteria, p_error, notParse>>

ParseNext == ParseItem \/ ParseReturn

(***************************************************************************)
(* The metadata stores (server side) and update_metadata_fields            *)
(***************************************************************************)
Get(d, f, default) == IF f \in DOMAIN d THEN d[f] ELSE default

\* Python values other than strings, kept apart from every string by a first
\* element no character equals: None, and an int with its decimal digits
PyNone == <<"#None">>

PyInt(digits) == <<"#int">> \o digits

\* str(value): a string is itself, None is 'None', an int its digits
PyStr(value) ==
    IF value = PyNone THEN <<"N", "o", "n", "e">>
    ELSE IF value # <<>> /\ value[1] = "#int" THEN Tail(value)
    ELSE value

\* datetime.utcnow().isoformat() + 'Z' at clock value n
Stamp(n) == <<"T", Digits[n + 1]>>

MaxClock == 1

Clients == {"c1", "c2"}

\* the entries the stores hold: two entries generated for one template
MetaIds == {"m1", "m2"}

NewDoc(id) ==
    [f \in {"_id", "associated_id", "status", "priority", "updated_at"} |->
        IF f = "_id" THEN id
        ELSE IF f = "associated_id" THEN "t1"
        ELSE IF f = "updated_at" THEN Stamp(0)
        ELSE <<"N">>]

NewRow(id) ==
    [f \in {"id", "associated_id", "status", "priority", "updated_at"} |->
        IF f = "id" THEN id
        ELSE IF f = "associated_id" THEN "t1"
        ELSE IF f = "updated_at" THEN Stamp(0)
        ELSE <<"N">>]

\* the arguments the model feeds: the id of an entry or of no entry;
\* updates over status, priority and updated_at, the two clients writing
\* different status values, the first an int priority and the second None
MetaIdArgs == {"m1", "m9"}

UpdFieldOrder == <<"status", "priority", "updated_at">>

UpdFields == {UpdFieldOrder[k] : k \in 1..Len(UpdFieldOrder)}

UpdValue(c, f) ==
    IF f = "status" THEN (IF c = "c1" THEN <<"A">> ELSE <<"o", "'", "k">>)
    ELSE IF f = "priority" THEN (IF c = "c1" THEN PyInt(<<"5">>) ELSE PyNone)
    ELSE <<"X">>

UpdateChoices(c) == {[f \in S |-> UpdValue(c, f)] : S \in SUBSET UpdFields}

\* get_metadata, lines 330-337: the criteria of the query it sends. None and
\* the empty string are both falsy identifiers and are modelled as "".
NoCriteria == [given |-> FALSE, q |-> <<>>]

\* a choice of filter that takes an empty criteria list for no criteria
GetMetadataCriteriaTruthy(associated_id, metadata_id, crit) ==
    IF crit.given /\ crit.q # <<>> THEN crit.q
    ELSE IF metadata_id # ""
    THEN <<[field |-> "_id", operator |-> "==", value |-> metadata_id]>>
    ELSE IF associated_id # ""
    THEN <<[field |-> "associated_id", operator |-> "==", value |-> associated_id]>>
    ELSE <<>>

get_metadata(associated_id, metadata_id, crit) ==
    IF crit.given THEN crit.q
    ELSE IF metadata_id # ""
    THEN <<[field |-> "_id", operator |-> "==", value |-> metadata_id]>>
    ELSE IF associated_id # ""
    THEN <<[field |-> "associated_id", operator |-> "==", value |-> associated_id]>>
    ELSE <<>>

\* the server's answer to a query on kbmetadata: the ids of the entries
\* that satisfy every criterion
Matching(q) ==
    {id \in DOMAIN kbmetadata :
        \A k \in 1..Len(q) :
            /\ q[k].field \in DOMAIN kbmetadata[id]
            /\ kbmetadata[id][q[k].field] = q[k].value}

Orders(S) ==
    {o \in [1..Cardinality(S) -> S] : \A a, b \in 1..Cardinality(S) : a # b => o[a] # o[b]}

\* the 'data' of a response: the matching entries as a list in some order;
\* or not a list (a single entry, or null); or a list whose first entry is
\* empty
Responses(q) ==
    {[kind |-> "list", items |-> [k \in 1..Len(o) |-> kbmetadata[o[k]]]] : o \in Orders(Matching(q))}
    \cup {[kind |-> "object", items |-> <<kbmetadata[id]>>] : id \in Matching(q)}
    \cup (IF Matching(q) = {}
          THEN {[kind |-> "object", items |-> <<>>],
                [kind |-> "list", items |-> <<EmptyDict>>]}
          ELSE {})

\* lines 396-397: entries = data if isinstance(data, list) else [data] if data else []
Entries(data) ==
    IF data.kind = "list" THEN data.items
    ELSE IF data.items # <<>> /\ DOMAIN data.items[1] # {} THEN data.items
    ELSE <<>>

\* a not-found test that looks at the list only
NoEntryListOnly(entries) == entries = <<>>

\* line 399
NoEntry(entries) == entries = <<>> \/ DOMAIN entries[1] = {}

\* a merge that keeps the identifier and drops every other fetched field
DictUpdateReplace(doc, updates) ==
    [f \in (DOMAIN doc \cap {"_id"}) \cup DOMAIN updates |->
        IF f \in DOMAIN updates THEN updates[f] ELSE doc[f]]

\* line 405: doc.update(updates)
DictUpdate(doc, updates) ==
    [f \in DOMAIN doc \cup DOMAIN updates |->
        IF f \in DOMAIN updates THEN updates[f] ELSE doc[f]]

\* a merge that sets the timestamp first and lets the updates replace it
MergedStampFirst(doc, updates, clock) ==
    DictUpdate(DictSet(doc, "updated_at", Stamp(clock)), updates)

\* lines 405-406
Merged(doc, updates, clock) ==
    DictSet(DictUpdate(doc, updates), "updated_at", Stamp(clock))

RECURSIVE Escape(_)
\* line 420: str(value).replace("'", "''")
Escape(s) ==
    IF s = <<>> THEN <<>>
    ELSE IF Head(s) = "'" THEN <<"'", "'">> \o Escape(Tail(s))
    ELSE <<Head(s)>> \o Escape(Tail(s))

RECURSIVE LiteralOk(_)
\* the text between the quotes of an SQL string literal: every quote doubled
LiteralOk(s) ==
    IF s = <<>> THEN TRUE
    ELSE IF Head(s) = "'" THEN Len(s) >= 2 /\ s[2] = "'" /\ LiteralOk(Tail(Tail(s)))
    ELSE LiteralOk(Tail(s))

RECURSIVE Unescape(_)
\* the string an SQL string literal denotes
Unescape(s) ==
    IF s = <<>> THEN <<>>
    ELSE IF Head(s) = "'" THEN <<"'">> \o Unescape(Tail(Tail(s)))
    ELSE <<Head(s)>> \o Unescape(Tail(s))

RECURSIVE SetClauses(_, _)
\* lines 418-421, over the fields of updates from position k on
SetClauses(updates, k) ==
    IF k > Len(UpdFieldOrder) THEN <<>>
    ELSE (IF UpdFieldOrder[k] \in DOMAIN updates
          THEN <<[col |-> UpdFieldOrder[k], lit |-> Escape(PyStr(updates[UpdFieldOrder[k]]))]>>
          ELSE <<>>) \o SetClauses(updates, k + 1)

\* a statement whose timestamp clause comes first
MirrorSqlStampFirst(metadata_id, updates, doc) ==
    [set |-> <<[col |-> "updated_at", lit |-> doc["updated_at"]]>> \o SetClauses(updates, 1),
     where_id |-> metadata_id]

\* a statement that assigns every column of the document, named or not
MirrorSqlWholeDoc(metadata_id, updates, doc) ==
    [set |-> SetClauses([f \in {"status", "priority"} |-> doc[f]], 1)
                \o <<[col |-> "updated_at", lit |-> doc["updated_at"]]>>,
     where_id |-> metadata_id]

\* lines 418-424: UPDATE metadata_catalog SET ... WHERE id = '<metadata_id>'
MirrorSql(metadata_id, updates, doc) ==
    [set |-> SetClauses(updates, 1) \o <<[col |-> "updated_at", lit |-> doc["updated_at"]]>>,
     where_id |-> metadata_id]

NoSql == [set |-> <<>>, where_id |-> ""]

Columns == {"id", "associated_id", "status", "priority", "updated_at"}

SqlOk(stmt) ==
    \A k \in 1..Len(stmt.set) : stmt.set[k].col \in Columns /\ LiteralOk(stmt.set[k].lit)

RECURSIVE ApplySet(_, _)
\* the assignments of an UPDATE in order: the rightmost one of a column wins
ApplySet(row, set) ==
    IF set = <<>> THEN row
    ELSE ApplySet([row EXCEPT ![Head(set).col] = Unescape(Head(set).lit)], Tail(set))

\* the SQL server running the UPDATE
SqlUpdate(catalog, stmt) ==
    [id \in DOMAIN catalog |->
        IF id = stmt.where_id THEN ApplySet(catalog[id], stmt.set) ELSE catalog[id]]

\* the primary server running the 'put' command: the document replaces the
\* entry with its _id (a document without one is stored under a new id)
ServerPut(store, doc) ==
    LET id == Get(doc, "_id", "m0") IN DictSet(store, id, DictSet(doc, "_id", id))

NoData == [kind |-> "none", items |-> <<>>]

\* a request sent, with what was sent and what came back
Request(req, ok, data, doc, sql) ==
    [req |-> req, ok |-> ok, data |-> data, doc |-> doc, sql |-> sql]

StoreInit ==
    /\ kbmetadata = [id \in MetaIds |-> NewDoc(id)]
    /\ metadata_catalog = [id \in MetaIds |-> NewRow(id)]
    /\ now = 0

UpdInit ==
    /\ u_pc = [c \in Clients |-> "idle"]
    /\ u_id = [c \in Clients |-> ""]
    /\ u_updates = [c \in Clients |-> EmptyDict]
    /\ u_fetched = [c \in Clients |-> EmptyDict]
    /\ u_doc = [c \in Clients |-> EmptyDict]
    /\ u_sent = [c \in Clients |-> <<>>]
    /\ u_err = [c \in Clients |-> ""]

\* the clock advances
Tick ==
    /\ now < MaxClock
    /\ now' = now + 1
    /\ UNCHANGED <<kbmetadata, metadata_catalog, updVars, notUpdate>>

\* lines 392-406: the fetch, the not-found test, the merge and the timestamp
Fetch(c) ==
    /\ u_pc[c] = "idle"
    /\ \E metadata_id \in MetaIdArgs, updates \in UpdateChoices(c) :
        /\ u_id' = [u_id EXCEPT ![c] = metadata_id]
        /\ u_updates' = [u_updates EXCEPT ![c] = updates]
        /\ \/ \* the query fails in transport: _execute_command re-raises
              /\ u_pc' = [u_pc EXCEPT ![c] = "raised"]
              /\ u_err' = [u_err EXCEPT ![c] = "transport"]
              /\ u_sent' = [u_sent EXCEPT ![c] = <<Request("query", FALSE, NoData, EmptyDict, NoSql)>>]
              /\ UNCHANGED <<u_fetched, u_doc>>
           \/ \E data \in Responses(get_metadata("", metadata_id, NoCriteria)) :
                LET entries == Entries(data) IN
                /\ u_sent' = [u_sent EXCEPT ![c] = <<Request("query", TRUE, data, EmptyDict, NoSql)>>]
                /\ IF NoEntry(entries)
                   THEN /\ u_pc' = [u_pc EXCEPT ![c] = "raised"]
                        /\ u_err' = [u_err EXCEPT ![c] = "notfound"]
                        /\ UNCHANGED <<u_fetched, u_doc>>
                   ELSE /\ u_pc' = [u_pc EXCEPT ![c] = "fetched"]
                        /\ u_fetched' = [u_fetched EXCEPT ![c] = entries[1]]
                        /\ u_doc' = [u_doc EXCEPT ![c] = Merged(entries[1], updates, now)]
                        /\ UNCHANGED u_err
    /\ UNCHANGED <<storeVars, notUpdate>>

\* a put that merges the updates into the entry as the store holds it now
PutDocFresh(c) ==
    LET id == u_doc[c]["_id"] IN
    IF id \in DOMAIN kbmetadata
    THEN DictSet(DictUpdate(kbmetadata[id], u_updates[c]), "updated_at", u_doc[c]["updated_at"])
    ELSE u_doc[c]

\* line 412: args=[json.dumps(doc)], the whole local document
PutDoc(c) == u_doc[c]

\* a put whose failure is logged and passed over like the mirror's
PutSwallows(c) ==
    /\ u_pc[c] = "fetched"
    /\ \/ /\ kbmetadata' = ServerPut(kbmetadata, PutDoc(c))
          /\ u_sent' = [u_sent EXCEPT ![c] = Append(@, Request("put", TRUE, NoData, PutDoc(c), NoSql))]
       \/ /\ kbmetadata' \in {kbmetadata, ServerPut(kbmetadata, PutDoc(c))}
          /\ u_sent' = [u_sent EXCEPT ![c] = Append(@, Request("put", FALSE, NoData, PutDoc(c), NoSql))]
    /\ u_pc' = [u_pc EXCEPT ![c] = "put_done"]
    /\ UNCHANGED <<metadata_catalog, now, u_id, u_updates, u_fetched, u_doc, u_err, notUpdate>>

\* lines 408-414: the put of the whole merged document
Put(c) ==
    /\ u_pc[c] = "fetched"
    /\ \/ /\ kbmetadata' = ServerPut(kbmetadata, PutDoc(c))
          /\ u_pc' = [u_pc EXCEPT ![c] = "put_done"]
          /\ u_sent' = [u_sent EXCEPT ![c] = Append(@, Request("put", TRUE, NoData, PutDoc(c), NoSql))]
          /\ UNCHANGED u_err
       \/ \* a transport error, raised whether or not the server ran the command
          /\ kbmetadata' \in {kbmetadata, ServerPut(kbmetadata, PutDoc(c))}
          /\ u_pc' = [u_pc EXCEPT ![c] = "raised"]
          /\ u_err' = [u_err EXCEPT ![c] = "transport"]
          /\ u_sent' = [u_sent EXCEPT ![c] = Append(@, Request("put", FALSE, NoData, PutDoc(c), NoSql))]
    /\ UNCHANGED <<metadata_catalog, now, u_id, u_updates, u_fetched, u_doc, notUpdate>>

\* a mirror step that lets the failure of execute_sql reach the caller
MirrorRaises(c) ==
    /\ u_pc[c] = "put_done"
    /\ LET sql == MirrorSql(u_id[c], u_updates[c], u_doc[c]) IN
       \/ /\ SqlOk(sql)
          /\ metadata_catalog' = SqlUpdate(metadata_catalog, sql)
          /\ u_sent' = [u_sent EXCEPT ![c] = Append(@, Request("sql", TRUE, NoData, EmptyDict, sql))]
          /\ u_pc' = [u_pc EXCEPT ![c] = "returned"]
          /\ UNCHANGED u_err
       \/ /\ UNCHANGED metadata_catalog
          /\ u_sent' = [u_sent EXCEPT ![c] = Append(@, Request("sql", FALSE, NoData, EmptyDict, sql))]
          /\ u_pc' = [u_pc EXCEPT ![c] = "raised"]
          /\ u_err' = [u_err EXCEPT ![c] = "transport"]
    /\ UNCHANGED <<kbmetadata, now, u_id, u_updates, u_fetched, u_doc, notUpdate>>

\* a mirror step that keeps a failed statement to send it again
MirrorRequeues(c) ==
    /\ u_pc[c] = "put_done"
    /\ LET sql == MirrorSql(u_id[c], u_updates[c], u_doc[c]) IN
       \/ /\ SqlOk(sql)
          /\ metadata_catalog' = SqlUpdate(metadata_catalog, sql)
          /\ u_sent' = [u_sent EXCEPT ![c] = Append(@, Request("sql", TRUE, NoData, EmptyDict, sql))]
          /\ u_pc' = [u_pc EXCEPT ![c] = "returned"]
       \/ /\ Len(u_sent[c]) < 3
          /\ UNCHANGED metadata_catalog
          /\ u_sent' = [u_sent EXCEPT ![c] = Append(@, Request("sql", FALSE, NoData, EmptyDict, sql))]
          /\ UNCHANGED u_pc
    /\ UNCHANGED <<kbmetadata, now, u_id, u_updates, u_fetched, u_doc, u_err, notUpdate>>

\* lines 416-430: the mirror statement, its failure swallowed, and the return
Mirror(c) ==
    /\ u_pc[c] = "put_done"
    /\ LET sql == MirrorSql(u_id[c], u_updates[c], u_doc[c]) IN
       \/ /\ SqlOk(sql)
          /\ metadata_catalog' = SqlUpdate(metadata_catalog, sql)
          /\ u_sent' = [u_sent EXCEPT ![c] = Append(@, Request("sql", TRUE, NoData, EmptyDict, sql))]
       \/ \* the statement is rejected by the SQL server
          /\ ~SqlOk(sql)
          /\ UNCHANGED metadata_catalog
          /\ u_sent' = [u_sent EXCEPT ![c] = Append(@, Request("sql", FALSE, NoData, EmptyDict, sql))]
       \/ \* a transport error, raised whether or not the server ran the statement
          /\ metadata_catalog' \in
                {metadata_catalog} \cup
                (IF SqlOk(sql) THEN {SqlUpdate(metadata_catalog, sql)} ELSE {})
          /\ u_sent' = [u_sent EXCEPT ![c] = Append(@, Request("sql", FALSE, NoData, EmptyDict, sql))]
    /\ u_pc' = [u_pc EXCEPT ![c] = "returned"]
    /\ UNCHANGED <<kbmetadata, now, u_id, u_updates, u_fetched, u_doc, u_err, notUpdate>>

UpdNext == Tick \/ \E c \in Clients : Fetch(c) \/ Put(c) \/ Mirror(c)


(***************************************************************************)
(* run_pipeline, step 7: the comparison of the two stores                  *)
(***************************************************************************)
\* the template id of the upload (step 1)
template_id == "t1"

VerInit ==
    /\ v_pc = "idle"
    /\ v_metadata_id = ""
    /\ v_orbit_entry = EmptyDict
    /\ v_sr = EmptyDict
    /\ v_mismatches = <<>>
    /\ v_report = ""

\* get_metadata_sql's default limit
DefaultLimit == 20

Min(a, b) == IF a < b THEN a ELSE b

\* lines 466-476: the records of SELECT * FROM metadata_catalog WHERE
\* associated_id = '<associated_id>' LIMIT <limit>, which states no order
get_metadata_sql(associated_id, limit) ==
    LET rows == {id \in DOMAIN metadata_catalog :
                    metadata_catalog[id]["associated_id"] = associated_id}
    IN {[k \in 1..Min(limit, Len(o)) |-> metadata_catalog[o[k]]] : o \in Orders(rows)}

\* the fields step 7 compares, line 353
CheckFields == <<"status", "priority", "geo_location", "processing_status">>

RECURSIVE MismatchesRaw(_, _, _)
\* a comparison of the values themselves, without str()
MismatchesRaw(orbit_entry, sr, k) ==
    IF k > Len(CheckFields) THEN <<>>
    ELSE LET field == CheckFields[k]
             orbit_val == IF DOMAIN orbit_entry # {} THEN Get(orbit_entry, field, <<>>) ELSE <<>>
             sql_val == Get(sr, field, <<>>)
         IN (IF orbit_val # sql_val THEN <<field>> ELSE <<>>)
            \o MismatchesRaw(orbit_entry, sr, k + 1)

RECURSIVE Mismatches(_, _, _)
\* lines 352-358, from position k of CheckFields on: str() of both values,
\* a missing field read as ''
Mismatches(orbit_entry, sr, k) ==
    IF k > Len(CheckFields) THEN <<>>
    ELSE LET field == CheckFields[k]
             orbit_val == IF DOMAIN orbit_entry # {}
                          THEN PyStr(Get(orbit_entry, field, <<>>)) ELSE <<>>
             sql_val == PyStr(Get(sr, field, <<>>))
         IN (IF orbit_val # sql_val THEN <<field>> ELSE <<>>)
            \o Mismatches(orbit_entry, sr, k + 1)

\* lines 326-338: the entry fetched from the primary store by metadata_id,
\* which step 4 took from the first entry found for the template
VerifyOrbit ==
    /\ v_pc = "idle"
    /\ \E metadata_id \in Matching(get_metadata(template_id, "", NoCriteria)) :
        /\ v_metadata_id' = metadata_id
        /\ \/ \* the query fails in transport, outside any try
              /\ v_pc' = "crashed"
              /\ UNCHANGED v_orbit_entry
           \/ \E data \in Responses(get_metadata("", metadata_id, NoCriteria)) :
                /\ v_pc' = "orbit_done"
                /\ v_orbit_entry' =
                      IF data.kind = "list" /\ data.items # <<>> THEN data.items[1]
                      ELSE IF data.kind = "list" \/ data.items = <<>> THEN EmptyDict
                      ELSE data.items[1]
    /\ UNCHANGED <<v_sr, v_mismatches, v_report, storeVars, notVerify>>

\* lines 340-364: the first SQL record for the template and the comparison
VerifySql ==
    /\ v_pc = "orbit_done"
    /\ v_pc' = "done"
    /\ \/ \* execute_sql fails: "SQLite comparison skipped"
          /\ v_report' = "skipped"
          /\ UNCHANGED <<v_sr, v_mismatches>>
       \/ \E sql_records \in get_metadata_sql(template_id, DefaultLimit) :
            IF sql_records # <<>>
            THEN LET sr == sql_records[1]
                     found == Mismatches(v_orbit_entry, sr, 1)
                 IN /\ v_sr' = sr
                    /\ v_mismatches' = found
                    /\ v_report' = IF Len(found) = 0 THEN "insync" ELSE "mismatch"
            ELSE /\ v_report' = "norecords"
                 /\ UNCHANGED <<v_sr, v_mismatches>>
    /\ UNCHANGED <<v_metadata_id, v_orbit_entry, storeVars, notVerify>>

\* step 7 while one client updates the entry
VerNext ==
    \/ Tick
    \/ Fetch("c1") \/ Put("c1") \/ Mirror("c1")
    \/ VerifyOrbit
    \/ VerifySql

\* the values an entry may hold in a compared field, in either store
FieldChoices(f) ==
    IF f = "status" THEN {<<"A">>, <<"P">>}
    ELSE IF f = "priority" THEN {PyInt(<<"5">>), <<"5">>}
    ELSE IF f = "geo_location" THEN {PyNone}
    ELSE {<<>>, <<"A">>}

\* the compared fields of an entry: any of them may be missing
CompareRecords ==
    LET fields == {CheckFields[k] : k \in 1..Len(CheckFields)}
        values == UNION {FieldChoices(f) : f \in fields}
    IN UNION {{r \in [S -> values] : \A f \in S : r[f] \in FieldChoices(f)} :
                S \in SUBSET fields}

\* step 7 starts with one entry for the template in each store, the two
\* holding any values
CompareInit ==
    /\ \E o, r \in CompareRecords :
        /\ kbmetadata =
              [id \in {"m1"} |-> DictSet(DictSet(o, "_id", id), "associated_id", template_id)]
        /\ metadata_catalog =
              [id \in {"m1"} |-> DictSet(DictSet(r, "id", id), "associated_id", template_id)]
    /\ now = 0

\* step 7 alone
CompareNext == VerifyOrbit \/ VerifySql


(***************************************************************************)
(* wait_for_metadata                                                       *)
(***************************************************************************)
MaxTimeout == 3

MaxPoll == 2

\* the clock runs long enough for every call to end
MaxTime == MaxTimeout + MaxPoll + 1

None == [found |-> FALSE, entry |-> EmptyDict]

Found(entry) == [found |-> TRUE, entry |-> entry]

\* an event of the call: a query with the data it delivered, or a sleep
QueryEvent(ok, data) == [ev |-> "query", ok |-> ok, data |-> data, secs |-> 0]

SleepEvent(secs) == [ev |-> "sleep", ok |-> TRUE, data |-> NoData, secs |-> secs]

WaitRest ==
    /\ w_pc = "off"
    /\ w_timeout = 0
    /\ w_poll = 0
    /\ w_start = 0
    /\ w_wake = 0
    /\ w_log = <<>>
    /\ w_result = None
    /\ w_err = ""

\* lines 357-359: the call starts, before the server has generated anything
WaitInit ==
    /\ w_pc = "test"
    /\ w_timeout \in 0..MaxTimeout
    /\ w_poll \in 1..MaxPoll
    /\ w_start = 0
    /\ w_wake = 0
    /\ w_log = <<>>
    /\ w_result = None
    /\ w_err = ""
    /\ kbmetadata = EmptyDict
    /\ metadata_catalog = EmptyDict
    /\ now = 0

\* time passes: at any step, and during a sleep also beyond its end; the
\* clock stops once the deadline is behind and the last sleep can end
TimePasses ==
    /\ now < (IF w_pc = "sleep" THEN MaxTime ELSE MaxTimeout + 1)
    /\ now' = now + 1
    /\ UNCHANGED <<kbmetadata, metadata_catalog, waitVars, notWait>>

\* the server's metadata generation writes an entry for the template into
\* both stores
ServerGenerate ==
    /\ \E id \in MetaIds \ DOMAIN kbmetadata :
        /\ kbmetadata' = DictSet(kbmetadata, id, NewDoc(id))
        /\ metadata_catalog' = DictSet(metadata_catalog, id, NewRow(id))
    /\ UNCHANGED <<now, waitVars, notWait>>

\* a loop test that reports the expired deadline as an error
WaitTestRaises ==
    /\ w_pc = "test"
    /\ IF now - w_start < w_timeout
       THEN /\ w_pc' = "query"
            /\ UNCHANGED <<w_result, w_err>>
       ELSE /\ w_pc' = "raised"
            /\ w_err' = "timeout"
            /\ UNCHANGED w_result
    /\ UNCHANGED <<w_timeout, w_poll, w_start, w_wake, w_log, storeVars, notWait>>

\* line 360, and lines 373-374 when the test fails
WaitTest ==
    /\ w_pc = "test"
    /\ IF now - w_start < w_timeout
       THEN /\ w_pc' = "query"
            /\ UNCHANGED w_result
       ELSE /\ w_pc' = "returned"
            /\ w_result' = None
    /\ UNCHANGED <<w_timeout, w_poll, w_start, w_wake, w_log, w_err, storeVars, notWait>>

\* a poll that sleeps once more before it returns the entry it found
WaitQuerySleepsOn ==
    /\ w_pc = "query"
    /\ \E data \in Responses(get_metadata(template_id, "", NoCriteria)) :
          LET entries == Entries(data) IN
          IF ~NoEntry(entries)
          THEN /\ w_pc' = "returned"
               /\ w_result' = Found(entries[1])
               /\ w_log' = w_log \o <<QueryEvent(TRUE, data), SleepEvent(w_poll)>>
               /\ UNCHANGED w_wake
          ELSE /\ w_pc' = "sleep"
               /\ w_wake' = now + w_poll
               /\ w_log' = w_log \o <<QueryEvent(TRUE, data), SleepEvent(w_poll)>>
               /\ UNCHANGED w_result
    /\ UNCHANGED <<w_timeout, w_poll, w_start, w_err, storeVars, notWait>>

\* a poll that tests the deadline again when the response has arrived and
\* drops an entry that came too late
WaitQueryTestsAgain ==
    /\ w_pc = "query"
    /\ \/ /\ w_pc' = "raised"
          /\ w_err' = "transport"
          /\ w_log' = Append(w_log, QueryEvent(FALSE, NoData))
          /\ UNCHANGED <<w_result, w_wake>>
       \/ \E data \in Responses(get_metadata(template_id, "", NoCriteria)) :
             LET entries == Entries(data) IN
             /\ UNCHANGED w_err
             /\ IF ~NoEntry(entries)
                THEN /\ w_pc' = "returned"
                     /\ w_result' = IF now - w_start < w_timeout THEN Found(entries[1]) ELSE None
                     /\ w_log' = Append(w_log, QueryEvent(TRUE, data))
                     /\ UNCHANGED w_wake
                ELSE /\ w_pc' = "sleep"
                     /\ w_wake' = now + w_poll
                     /\ w_log' = w_log \o <<QueryEvent(TRUE, data), SleepEvent(w_poll)>>
                     /\ UNCHANGED w_result
    /\ UNCHANGED <<w_timeout, w_poll, w_start, storeVars, notWait>>

\* a poll that takes a failed query for an empty one and polls again
WaitQueryRetries ==
    /\ w_pc = "query"
    /\ \/ /\ w_pc' = "sleep"
          /\ w_wake' = now + w_poll
          /\ w_log' = w_log \o <<QueryEvent(FALSE, NoData), SleepEvent(w_poll)>>
          /\ UNCHANGED <<w_result, w_err>>
       \/ \E data \in Responses(get_metadata(template_id, "", NoCriteria)) :
             LET entries == Entries(data) IN
             /\ UNCHANGED w_err
             /\ IF ~NoEntry(entries)
                THEN /\ w_pc' = "returned"
                     /\ w_result' = Found(entries[1])
                     /\ w_log' = Append(w_log, QueryEvent(TRUE, data))
                     /\ UNCHANGED w_wake
                ELSE /\ w_pc' = "sleep"
                     /\ w_wake' = now + w_poll
                     /\ w_log' = w_log \o <<QueryEvent(TRUE, data), SleepEvent(w_poll)>>
                     /\ UNCHANGED w_result
    /\ UNCHANGED <<w_timeout, w_poll, w_start, storeVars, notWait>>

\* lines 361-371: one poll; the entry is returned, or the sleep starts
WaitQuery ==
    /\ w_pc = "query"
    /\ \/ \* the query fails in transport: the error leaves the call
          /\ w_pc' = "raised"
          /\ w_err' = "transport"
          /\ w_log' = Append(w_log, QueryEvent(FALSE, NoData))
          /\ UNCHANGED <<w_result, w_wake>>
       \/ \E data \in Responses(get_metadata(template_id, "", NoCriteria)) :
             LET entries == Entries(data) IN
             /\ UNCHANGED w_err
             /\ IF ~NoEntry(entries)
                THEN /\ w_pc' = "returned"
                     /\ w_result' = Found(entries[1])
                     /\ w_log' = Append(w_log, QueryEvent(TRUE, data))
                     /\ UNCHANGED w_wake
                ELSE /\ w_pc' = "sleep"
                     /\ w_wake' = now + w_poll
                     /\ w_log' = w_log \o <<QueryEvent(TRUE, data), SleepEvent(w_poll)>>
                     /\ UNCHANGED w_result
    /\ UNCHANGED <<w_timeout, w_poll, w_start, storeVars, notWait>>

\* a sleep that can end before poll_interval has passed
WaitWakeEarly ==
    /\ w_pc = "sleep"
    /\ w_pc' = "test"
    /\ UNCHANGED <<w_timeout, w_poll, w_start, w_wake, w_log, w_result, w_err, storeVars, notWait>>

\* line 371: time.sleep(poll_interval) ends
WaitWake ==
    /\ w_pc = "sleep"
    /\ now >= w_wake
    /\ w_pc' = "test"
    /\ UNCHANGED <<w_timeout, w_poll, w_start, w_wake, w_log, w_result, w_err, storeVars, notWait>>

WaitNext == TimePasses \/ ServerGenerate \/ WaitTest \/ WaitQuery \/ WaitWake


(***************************************************************************)
(* The command lines: optimusdb_client.main and batch_operations.main      *)
(***************************************************************************)
MaxDocs == 201

\* import_from_json's page size
batch_size == 100

\* a file argument: whether the path exists, whether the file's content
\* parses (as JSON or YAML), whether the argument text itself is JSON,
\* whether the JSON value is a list, and how many documents it holds
FileArg(exists, content_ok, text_json, is_list, n) ==
    [exists |-> exists, content_ok |-> content_ok, text_json |-> text_json,
     is_list |-> is_list, n |-> n]

MissingFile == FileArg(FALSE, FALSE, FALSE, FALSE, 0)

\* a path that does not exist and whose text is a JSON value, as "[{}, {}]"
InlineJson == FileArg(FALSE, FALSE, TRUE, TRUE, 2)

BadFile == FileArg(TRUE, FALSE, FALSE, FALSE, 0)

ListFile(n) == FileArg(TRUE, TRUE, FALSE, TRUE, n)

ObjectFile == FileArg(TRUE, TRUE, FALSE, FALSE, 1)

\* the place of the file in a command that takes none
NoFile == FileArg(TRUE, TRUE, FALSE, FALSE, 0)

SmallFileArgs == {MissingFile, InlineJson, BadFile, ListFile(2), ObjectFile}

ImportFileArgs == {MissingFile, BadFile, ObjectFile} \cup {ListFile(n) : n \in 0..MaxDocs}

DstypeArgs == {"dsswres", "kbdata"}

CriteriaArgs == {<<<<"f", ":", "7">>>>, <<<<"f">>>>}

\* the lines the user may type at the prompt of delete-all, and the end of
\* input (no line at all)
EndOfInput == <<"#EOF">>

Answers ==
    {<<"y", "e", "s">>, <<"Y", "E", "S">>, <<"Y", "e", "s">>, <<"n", "o">>,
     <<"y">>, <<>>, <<" ", "y", "e", "s">>, EndOfInput}

\* a command line: the program, the command, its arguments, and what
\* standard input holds (--confirm and the input matter to delete-all only)
Command(prog, name, file, dstype, crit) ==
    [prog |-> prog, name |-> name, file |-> file, dstype |-> dstype, crit |-> crit,
     confirm |-> FALSE, stdin |-> <<>>]

DeleteAllCommand(dstype, confirm, stdin) ==
    [Command("client", "delete-all", NoFile, dstype, <<>>)
        EXCEPT !.confirm = confirm, !.stdin = stdin]

Commands ==
    {Command("client", "create", f, d, <<>>) : f \in SmallFileArgs, d \in DstypeArgs}
    \cup {Command("client", "update", f, d, c) :
            f \in SmallFileArgs, d \in DstypeArgs, c \in CriteriaArgs}
    \cup {Command("client", "upload", f, d, <<>>) :
            f \in {MissingFile, BadFile, ObjectFile}, d \in DstypeArgs}
    \cup {Command("batch", "import", f, d, <<>>) : f \in ImportFileArgs, d \in DstypeArgs}
    \cup {DeleteAllCommand(d, confirm, a) :
            d \in DstypeArgs, confirm \in BOOLEAN, a \in Answers}
    \cup {Command("client", name, NoFile, "dsswres", <<>>) : name \in {"health", "status"}}
    \cup {Command("client", "get", NoFile, d, c) :
            d \in DstypeArgs, c \in CriteriaArgs \cup {<<>>}}
    \cup {Command("client", "delete", NoFile, d, c) : d \in DstypeArgs, c \in CriteriaArgs}

\* the documents of a JSON value: 1..n stand for n distinct documents
Docs(n) == [k \in 1..n |-> k]

\* a request with its target datastore ("" when the payload names none),
\* the documents it carries and whether it succeeded
Req(verb, dstype, docs, ok) == [verb |-> verb, dstype |-> dstype, docs |-> docs, ok |-> ok]

CliStart(cmd) ==
    /\ c_cmd = cmd
    /\ c_pc = "start"
    /\ c_net = <<>>
    /\ c_err = ""
    /\ c_msg = ""
    /\ c_exit = -1
    /\ documents = <<>>
    /\ c_i = 0

CliInit == \E cmd \in Commands : CliStart(cmd)

\* no command line running
CliRest == CliStart(Command("client", "create", MissingFile, "dsswres", <<>>))

\* a parse_json_arg that takes a missing file for an empty document list
ParseJsonArgDefaultsEmpty(arg) ==
    IF arg.exists
    THEN (IF arg.content_ok
          THEN [err |-> "", is_list |-> arg.is_list, n |-> arg.n]
          ELSE [err |-> "JSONDecodeError", is_list |-> FALSE, n |-> 0])
    ELSE [err |-> "", is_list |-> TRUE, n |-> 0]

\* parse_json_arg, lines 819-823: the file's JSON if the path exists, else
\* the argument text parsed as JSON
parse_json_arg(arg) ==
    IF arg.exists
    THEN (IF arg.content_ok
          THEN [err |-> "", is_list |-> arg.is_list, n |-> arg.n]
          ELSE [err |-> "JSONDecodeError", is_list |-> FALSE, n |-> 0])
    ELSE (IF arg.text_json
          THEN [err |-> "", is_list |-> arg.is_list, n |-> arg.n]
          ELSE [err |-> "JSONDecodeError", is_list |-> FALSE, n |-> 0])

\* lines 795-797 and the normal end of main
Exit(err) ==
    /\ c_pc' = "exited"
    /\ c_err' = err
    /\ c_exit' = IF err = "" THEN 0 ELSE 1

\* a request is sent: it succeeds, or fails in transport
Send(verb, dstype, docs, ok) ==
    /\ c_net' = Append(c_net, Req(verb, dstype, docs, ok))
    /\ Exit(IF ok THEN "" ELSE "transport")

\* lines 732-736: create
RunCreate ==
    /\ c_pc = "start" /\ c_cmd.prog = "client" /\ c_cmd.name = "create"
    /\ LET r == parse_json_arg(c_cmd.file) IN
       IF r.err # ""
       THEN Exit(r.err) /\ UNCHANGED c_net
       ELSE \E ok \in BOOLEAN : Send("crudput", c_cmd.dstype, Docs(r.n), ok)
    /\ UNCHANGED <<c_cmd, c_msg, documents, c_i, notCli>>

\* lines 738-743 and 172-184: update; the payload of update() names no dstype
RunUpdate ==
    /\ c_pc = "start" /\ c_cmd.prog = "client" /\ c_cmd.name = "update"
    /\ LET crit == parse_criteria(c_cmd.crit)
           r == parse_json_arg(c_cmd.file)
       IN IF crit.raised
          THEN Exit("ValueError") /\ UNCHANGED c_net
          ELSE IF r.err # ""
          THEN Exit(r.err) /\ UNCHANGED c_net
          ELSE \E ok \in BOOLEAN : Send("crudupdate", "", Docs(r.n), ok)
    /\ UNCHANGED <<c_cmd, c_msg, documents, c_i, notCli>>

\* an upload that posts the file before it validates it
RunUploadPostsFirst ==
    /\ c_pc = "start" /\ c_cmd.prog = "client" /\ c_cmd.name = "upload"
    /\ IF ~c_cmd.file.exists
       THEN Exit("FileNotFoundError") /\ UNCHANGED c_net
       ELSE \E ok \in BOOLEAN :
              /\ c_net' = Append(c_net, Req("upload", c_cmd.dstype, <<>>, ok))
              /\ Exit(IF ~ok THEN "transport"
                      ELSE IF ~c_cmd.file.content_ok THEN "YAMLError" ELSE "")
    /\ UNCHANGED <<c_cmd, c_msg, documents, c_i, notCli>>

\* lines 757-761 and 257-309: upload; the file must exist and parse as YAML
\* before the POST
RunUpload ==
    /\ c_pc = "start" /\ c_cmd.prog = "client" /\ c_cmd.name = "upload"
    /\ IF ~c_cmd.file.exists
       THEN Exit("FileNotFoundError") /\ UNCHANGED c_net
       ELSE IF ~c_cmd.file.content_ok
       THEN Exit("YAMLError") /\ UNCHANGED c_net
       ELSE \E ok \in BOOLEAN : Send("upload", c_cmd.dstype, <<>>, ok)
    /\ UNCHANGED <<c_cmd, c_msg, documents, c_i, notCli>>

\* lines 724-730 and 131-157: get; without --criteria the criteria are [],
\* and the payload of get() names the dstype
RunGet ==
    /\ c_pc = "start" /\ c_cmd.prog = "client" /\ c_cmd.name = "get"
    /\ IF c_cmd.crit # <<>> /\ parse_criteria(c_cmd.crit).raised
       THEN Exit("ValueError") /\ UNCHANGED c_net
       ELSE \E ok \in BOOLEAN : Send("crudget", c_cmd.dstype, <<>>, ok)
    /\ UNCHANGED <<c_cmd, c_msg, documents, c_i, notCli>>

\* lines 745-748 and 186-196: delete; the payload of delete() names no dstype
RunDelete ==
    /\ c_pc = "start" /\ c_cmd.prog = "client" /\ c_cmd.name = "delete"
    /\ IF parse_criteria(c_cmd.crit).raised
       THEN Exit("ValueError") /\ UNCHANGED c_net
       ELSE \E ok \in BOOLEAN : Send("cruddelete", "", <<>>, ok)
    /\ UNCHANGED <<c_cmd, c_msg, documents, c_i, notCli>>

\* str.lower() on the letters of the answers
LowerChar(ch) ==
    IF ch = "Y" THEN "y" ELSE IF ch = "E" THEN "e" ELSE IF ch = "S" THEN "s"
    ELSE IF ch = "N" THEN "n" ELSE IF ch = "O" THEN "o" ELSE ch

Lower(text) == [k \in 1..Len(text) |-> LowerChar(text[k])]

\* a delete-all that asks nobody
RunDeleteAllUnasked ==
    /\ c_pc = "start" /\ c_cmd.prog = "client" /\ c_cmd.name = "delete-all"
    /\ \E ok \in BOOLEAN : Send("cruddelete", "", <<>>, ok)
    /\ UNCHANGED <<c_cmd, c_msg, documents, c_i, notCli>>

\* lines 750-755, 198-201 and 186-196: delete-all; without --confirm the
\* answer typed at the prompt decides; the payload of delete() names no dstype
RunDeleteAll ==
    /\ c_pc = "start" /\ c_cmd.prog = "client" /\ c_cmd.name = "delete-all"
    /\ IF ~c_cmd.confirm /\ c_cmd.stdin = EndOfInput
       THEN \* input() raises EOFError
            Exit("EOFError") /\ UNCHANGED <<c_net, c_msg>>
       ELSE IF ~c_cmd.confirm /\ Lower(c_cmd.stdin) # <<"y", "e", "s">>
       THEN /\ c_msg' = "Cancelled"
            /\ c_pc' = "exited"
            /\ c_exit' = 0
            /\ UNCHANGED <<c_net, c_err>>
       ELSE /\ \E ok \in BOOLEAN : Send("cruddelete", "", <<>>, ok)
            /\ UNCHANGED c_msg
    /\ UNCHANGED <<c_cmd, documents, c_i, notCli>>

\* a health command that always reports success
RunHealthExitsZero ==
    /\ c_pc = "start" /\ c_cmd.prog = "client" /\ c_cmd.name = "health"
    /\ \E healthy \in BOOLEAN :
        c_net' = Append(c_net, Req("GET agent/status", "", <<>>, healthy))
    /\ c_pc' = "exited"
    /\ c_exit' = 0
    /\ UNCHANGED <<c_cmd, c_err, c_msg, documents, c_i, notCli>>

\* lines 790-791 and 550-565: health; health_check turns every failure of
\* its GET into False, and the exit status is sys.exit(0 if healthy else 1)
RunHealth ==
    /\ c_pc = "start" /\ c_cmd.prog = "client" /\ c_cmd.name = "health"
    /\ \E healthy \in BOOLEAN :
        /\ c_net' = Append(c_net, Req("GET agent/status", "", <<>>, healthy))
        /\ c_exit' = IF healthy THEN 0 ELSE 1
    /\ c_pc' = "exited"
    /\ UNCHANGED <<c_cmd, c_err, c_msg, documents, c_i, notCli>>

\* lines 786-787 and 523-530: status; get_agent_status raises what its GET
\* raises
RunStatus ==
    /\ c_pc = "start" /\ c_cmd.prog = "client" /\ c_cmd.name = "status"
    /\ \E ok \in BOOLEAN : Send("GET agent/status", "", <<>>, ok)
    /\ UNCHANGED <<c_cmd, c_msg, documents, c_i, notCli>>

\* batch_operations.py lines 166-172: the health check before any operation
BatchHealth ==
    /\ c_pc = "start" /\ c_cmd.prog = "batch"
    /\ \E healthy \in BOOLEAN :
        /\ c_net' = Append(c_net, Req("GET agent/status", "", <<>>, healthy))
        /\ IF healthy
           THEN c_pc' = "import" /\ UNCHANGED <<c_err, c_exit>>
           ELSE c_pc' = "exited" /\ c_exit' = 1 /\ UNCHANGED c_err
    /\ UNCHANGED <<c_cmd, c_msg, documents, c_i, notCli>>

\* batch_operations.py lines 70-86: the file test, the load, the wrapping of
\* a single object
ImportOpen ==
    /\ c_pc = "import" /\ c_cmd.name = "import"
    /\ IF ~c_cmd.file.exists
       THEN /\ c_msg' = "File not found"
            /\ c_pc' = "exited"
            /\ c_exit' = 0
            /\ UNCHANGED <<c_err, documents>>
       ELSE IF ~c_cmd.file.content_ok
       THEN /\ c_pc' = "exited"
            /\ c_err' = "JSONDecodeError"
            /\ c_exit' = 1
            /\ UNCHANGED <<c_msg, documents>>
       ELSE /\ documents' = Docs(c_cmd.file.n)
            /\ c_pc' = "loop"
            /\ UNCHANGED <<c_err, c_msg, c_exit>>
    /\ UNCHANGED <<c_cmd, c_net, c_i, notCli>>

\* a page that leaves out its last document
BatchSliceShort(docs, i) == SubSeq(docs, i + 1, Min(i + batch_size - 1, Len(docs)))

\* batch_operations.py line 89: documents[i:i+batch_size]
BatchSlice(docs, i) == SubSeq(docs, i + 1, Min(i + batch_size, Len(docs)))

\* batch_operations.py lines 88-96: one page; a failed create is printed and
\* the loop goes on
ImportBatch ==
    /\ c_pc = "loop"
    /\ c_i < Len(documents)
    /\ \E ok \in BOOLEAN :
        c_net' = Append(c_net, Req("crudput", c_cmd.dstype, BatchSlice(documents, c_i), ok))
    /\ c_i' = c_i + batch_size
    /\ UNCHANGED <<c_cmd, c_pc, c_err, c_msg, c_exit, documents, notCli>>

\* batch_operations.py line 98: the loop has ended
ImportFinish ==
    /\ c_pc = "loop"
    /\ c_i >= Len(documents)
    /\ c_msg' = "Import completed"
    /\ c_pc' = "exited"
    /\ c_exit' = 0
    /\ UNCHANGED <<c_cmd, c_net, c_err, documents, c_i, notCli>>

CliNext ==
    \/ RunCreate \/ RunUpdate \/ RunUpload
    \/ RunDeleteAll \/ RunHealth \/ RunStatus
    \/ RunGet \/ RunDelete
    \/ BatchHealth \/ ImportOpen \/ ImportBatch \/ ImportFinish

(***************************************************************************)
(* verify_48_columns                                                       *)
(***************************************************************************)
\* lines 490-503
expected ==
    <<"id", "author", "metadata_type", "component", "behaviour",
      "relationships", "associated_id", "name", "description", "tags",
      "status", "created_by", "created_at", "updated_at", "related_ids",
      "priority", "scheduling_info", "sla_constraints", "ownership_details",
      "audit_trail", "data_domain", "data_classification", "geo_location",
      "temporal_coverage", "data_quality_score", "schema_version",
      "content_hash", "file_format", "file_size_bytes", "record_count",
      "update_frequency", "retention_policy", "access_control",
      "compliance_tags", "provenance_chain", "processing_status",
      "api_endpoint", "version", "parent_id", "expiry_date",
      "language", "license_type", "contact_info", "node_count",
      "ipfs_cid", "source_agent", "source_pod", "source_ip">>

\* the tables the server may have: the reference columns without some of
\* these, followed by columns outside the reference list ("" is a record of
\* the PRAGMA that carries no name)
DropCandidates == {"id", "geo_location", "ipfs_cid", "source_ip"}

ExtraColumns == {<<>>, <<"legacy_flag">>, <<"">>, <<"legacy_flag", "">>}

Without(names, S) == SelectSeq(names, LAMBDA c : c \notin S)

TableColumns ==
    {Without(expected, drop) \o extra : drop \in SUBSET DropCandidates, extra \in ExtraColumns}

\* the statement of get_schema_info, line 480
SchemaRead == "PRAGMA table_info(metadata_catalog)"

Report(ok, total, present, missing) ==
    [ok |-> ok, total |-> total, expected |-> 48, present |-> present, missing |-> missing]

NoReport == Report(FALSE, 0, <<>>, <<>>)

SchemaStart(pc, columns) ==
    /\ s_pc = pc
    /\ s_columns = columns
    /\ s_sent = <<>>
    /\ s_result = NoReport

SchemaInit == \E columns \in TableColumns : SchemaStart("start", columns)

\* verify_48_columns not called
SchemaRest == SchemaStart("off", <<>>)

\* a verification that counts the columns instead of looking for each name
VerifyColumnsByCount ==
    /\ s_pc = "start"
    /\ \E ok \in BOOLEAN :
        /\ s_sent' = Append(s_sent, [sql |-> SchemaRead, ok |-> ok])
        /\ IF ~ok
           THEN s_pc' = "raised" /\ UNCHANGED s_result
           ELSE LET actual == s_columns
                    present == SelectSeq(expected, LAMBDA c : \E k \in 1..Len(actual) : actual[k] = c)
                    missing == SelectSeq(expected, LAMBDA c : \A k \in 1..Len(actual) : actual[k] # c)
                IN /\ s_pc' = "returned"
                   /\ s_result' = Report(Len(actual) >= 48, Len(actual), present, missing)
    /\ UNCHANGED <<s_columns, notSchema>>

\* lines 478-517: the schema read of get_schema_info, which raises what its
\* request raises, and the report
verify_48_columns ==
    /\ s_pc = "start"
    /\ \E ok \in BOOLEAN :
        /\ s_sent' = Append(s_sent, [sql |-> SchemaRead, ok |-> ok])
        /\ IF ~ok
           THEN s_pc' = "raised" /\ UNCHANGED s_result
           ELSE LET actual == s_columns
                    present == SelectSeq(expected, LAMBDA c : \E k \in 1..Len(actual) : actual[k] = c)
                    missing == SelectSeq(expected, LAMBDA c : \A k \in 1..Len(actual) : actual[k] # c)
                IN /\ s_pc' = "returned"
                   /\ s_result' = Report(Len(missing) = 0, Len(actual), present, missing)
    /\ UNCHANGED <<s_columns, notSchema>>

SchemaNext == verify_48_columns

(***************************************************************************)
(* get_metadata as a call                                                  *)
(***************************************************************************)
\* the arguments the model feeds: identifiers that are empty (or None), of
\* an entry, or of no entry; criteria that are None, [] or one filter
AssociatedIdArgs == {"", "t1", "t9"}

MetadataIdArgs == {"", "m1", "m9"}

RawCriteriaArgs ==
    {NoCriteria,
     [given |-> TRUE, q |-> <<>>],
     [given |-> TRUE, q |-> <<[field |-> "_id", operator |-> "==", value |-> "m2"]>>]}

MetaArgs(associated_id, metadata_id, crit) ==
    [associated_id |-> associated_id, metadata_id |-> metadata_id, criteria |-> crit]

\* a request of query(): the command, the datastore and the criteria
QueryRequest(dstype, q, ok) == [cmd |-> "query", dstype |-> dstype, criteria |-> q, ok |-> ok]

MetaStart(pc, args) ==
    /\ g_pc = pc
    /\ g_args = args
    /\ g_sent = <<>>
    /\ g_data = NoData

MetaInit ==
    \E a \in AssociatedIdArgs, m \in MetadataIdArgs, crit \in RawCriteriaArgs :
        MetaStart("start", MetaArgs(a, m, crit))

\* get_metadata not called
MetaRest == MetaStart("off", MetaArgs("", "", NoCriteria))

\* lines 330-340 and 207-236: the filter is chosen and query() sends it to
\* kbmetadata; the response is returned, or the transport error raised
GetMetadata ==
    /\ g_pc = "start"
    /\ LET q == get_metadata(g_args.associated_id, g_args.metadata_id, g_args.criteria) IN
       \/ /\ g_sent' = Append(g_sent, QueryRequest("kbmetadata", q, FALSE))
          /\ g_pc' = "raised"
          /\ UNCHANGED g_data
       \/ \E data \in Responses(q) :
            /\ g_sent' = Append(g_sent, QueryRequest("kbmetadata", q, TRUE))
            /\ g_pc' = "returned"
            /\ g_data' = data
    /\ UNCHANGED <<g_args, storeVars, notMeta>>

\* a call is made at any time of the clock
MetaNext == GetMetadata \/ Tick

(***************************************************************************)
(* batch_operations.cleanup_by_pattern                                     *)
(***************************************************************************)
\* the ids a datastore may hold, and those the pattern of the call matches
DocIds == {"tmp1", "tmp2", "keep"}

PatternIds == {"tmp1", "tmp2"}

\* the criteria of lines 105 and 125: [{"_id": {"$regex": pattern}}]
PatternCriteria == "regex"

\* a request of the cleanup: the command, the datastore the payload names
\* ("" when it names none), its criteria and whether it succeeded
CleanRequest(verb, dstype, crit, ok) ==
    [verb |-> verb, dstype |-> dstype, criteria |-> crit, ok |-> ok]

CleanStart(pc, dstype, stdin, store, default) ==
    /\ k_pc = pc
    /\ k_dstype = dstype
    /\ k_stdin = stdin
    /\ k_store = store
    /\ k_default = default
    /\ k_documents = {}
    /\ k_shown = 0
    /\ k_sent = <<>>
    /\ k_msg = ""

CleanInit ==
    \E dstype \in DstypeArgs, stdin \in Answers, default \in DstypeArgs,
       store \in [DstypeArgs -> SUBSET DocIds] :
        CleanStart("start", dstype, stdin, store, default)

\* cleanup_by_pattern not called
CleanRest == CleanStart("off", "dsswres", <<>>, [d \in DstypeArgs |-> {}], "dsswres")

\* the server running a crudget or cruddelete with the pattern on a datastore
ServerMatch(store, dstype) == store[dstype] \cap PatternIds

ServerDelete(store, dstype) == [store EXCEPT ![dstype] = @ \ PatternIds]

\* another client of the server creates a document while the cleanup runs
ServerCreate ==
    /\ k_pc \in {"start", "confirm", "delete"}
    /\ \E d \in DstypeArgs : \E id \in DocIds \ k_store[d] :
        k_store' = [k_store EXCEPT ![d] = @ \cup {id}]
    /\ UNCHANGED <<k_pc, k_dstype, k_stdin, k_default, k_documents, k_shown, k_sent, k_msg, notClean>>

\* lines 102-118: the query, the empty test and the listing
CleanupQuery ==
    /\ k_pc = "start"
    /\ \/ /\ k_sent' = Append(k_sent, CleanRequest("crudget", k_dstype, PatternCriteria, FALSE))
          /\ k_pc' = "raised"
          /\ UNCHANGED <<k_documents, k_shown, k_msg>>
       \/ LET found == ServerMatch(k_store, k_dstype) IN
          /\ k_sent' = Append(k_sent, CleanRequest("crudget", k_dstype, PatternCriteria, TRUE))
          /\ k_documents' = found
          /\ IF found = {}
             THEN /\ k_msg' = "No documents match the pattern"
                  /\ k_pc' = "returned"
                  /\ UNCHANGED k_shown
             ELSE /\ k_shown' = Cardinality(found)
                  /\ k_pc' = "confirm"
                  /\ UNCHANGED k_msg
    /\ UNCHANGED <<k_dstype, k_stdin, k_store, k_default, notClean>>

\* a confirmation that takes every answer but "no" for a yes
CleanupConfirmUnlessNo ==
    /\ k_pc = "confirm"
    /\ IF k_stdin = EndOfInput
       THEN k_pc' = "raised" /\ UNCHANGED k_msg
       ELSE IF Lower(k_stdin) = <<"n", "o">>
       THEN k_pc' = "returned" /\ k_msg' = "Cancelled"
       ELSE k_pc' = "delete" /\ UNCHANGED k_msg
    /\ UNCHANGED <<k_dstype, k_stdin, k_store, k_default, k_documents, k_shown, k_sent, notClean>>

\* lines 120-123: the prompt; input() raises EOFError at the end of input
CleanupConfirm ==
    /\ k_pc = "confirm"
    /\ IF k_stdin = EndOfInput
       THEN k_pc' = "raised" /\ UNCHANGED k_msg
       ELSE IF Lower(k_stdin) # <<"y", "e", "s">>
       THEN k_pc' = "returned" /\ k_msg' = "Cancelled"
       ELSE k_pc' = "delete" /\ UNCHANGED k_msg
    /\ UNCHANGED <<k_dstype, k_stdin, k_store, k_default, k_documents, k_shown, k_sent, notClean>>

\* lines 125-127 and optimusdb_client.py 186-196: the delete by pattern; the
\* payload of delete() names no dstype, so the server acts on its default
CleanupDelete ==
    /\ k_pc = "delete"
    /\ \/ /\ k_sent' = Append(k_sent, CleanRequest("cruddelete", "", PatternCriteria, TRUE))
          /\ k_store' = ServerDelete(k_store, k_default)
          /\ k_pc' = "returned"
          /\ k_msg' = "Cleanup Result"
       \/ \* a transport error, raised whether or not the server ran the command
          /\ k_sent' = Append(k_sent, CleanRequest("cruddelete", "", PatternCriteria, FALSE))
          /\ k_store' \in {k_store, ServerDelete(k_store, k_default)}
          /\ k_pc' = "raised"
          /\ UNCHANGED k_msg
    /\ UNCHANGED <<k_dstype, k_stdin, k_default, k_documents, k_shown, notClean>>

CleanNext == ServerCreate \/ CleanupQuery \/ CleanupConfirm \/ CleanupDelete

(***************************************************************************)
(* Specifications                                                          *)
(***************************************************************************)
InitParse ==
    ParseInit /\ StoreInit /\ UpdInit /\ VerInit /\ WaitRest /\ CliRest /\ SchemaRest /\ MetaRest /\ CleanRest

SpecParse == InitParse /\ [][ParseNext]_vars

InitUpdate ==
    ParseRest /\ StoreInit /\ UpdInit /\ VerInit /\ WaitRest /\ CliRest /\ SchemaRest /\ MetaRest /\ CleanRest

SpecUpdate == InitUpdate /\ [][UpdNext]_vars

SpecVerify == InitUpdate /\ [][VerNext]_vars

InitWait ==
    ParseRest /\ UpdInit /\ VerInit /\ WaitInit /\ CliRest /\ SchemaRest /\ MetaRest /\ CleanRest

InitCli ==
    ParseRest /\ StoreInit /\ UpdInit /\ VerInit /\ WaitRest /\ CliInit /\ SchemaRest /\ MetaRest /\ CleanRest

SpecCli == InitCli /\ [][CliNext]_vars

SpecWait == InitWait /\ [][WaitNext]_vars

\* every query returns, every sleep ends, the loop test is run, and the
\* clock does not stop while the call sleeps
SpecWaitFair ==
    /\ InitWait /\ [][WaitNext]_vars
    /\ WF_vars(WaitTest) /\ WF_vars(WaitQuery) /\ WF_vars(WaitWake) /\ WF_vars(TimePasses)

InitCompare ==
    ParseRest /\ CompareInit /\ UpdInit /\ VerInit /\ WaitRest /\ CliRest /\ SchemaRest /\ MetaRest /\ CleanRest

SpecCompare == InitCompare /\ [][CompareNext]_vars

InitSchema ==
    ParseRest /\ StoreInit /\ UpdInit /\ VerInit /\ WaitRest /\ CliRest /\ SchemaInit /\ MetaRest
    /\ CleanRest

SpecSchema == InitSchema /\ [][SchemaNext]_vars

InitMeta ==
    ParseRest /\ StoreInit /\ UpdInit /\ VerInit /\ WaitRest /\ CliRest /\ SchemaRest /\ MetaInit
    /\ CleanRest

SpecMeta == InitMeta /\ [][MetaNext]_vars

InitClean ==
    ParseRest /\ StoreInit /\ UpdInit /\ VerInit /\ WaitRest /\ CliRest /\ SchemaRest /\ MetaRest
    /\ CleanInit

SpecClean == InitClean /\ [][CleanNext]_vars

(***************************************************************************)
(* Properties                                                              *)
(***************************************************************************)
\* the number of colon-separated segments of a token
NumSegments(item) == 1 + Cardinality({k \in 1..Len(item) : item[k] = ":"})

Malformed(item) == NumSegments(item) \notin {2, 3}

\* C1: every malformed token (fewer than two or more than three
\* colon-separated segments) makes parse_criteria raise a ValueError naming
\* it: the loop never translates a malformed token, and an error names the
\* token at which the loop stopped
C1_MalformedTokenRaises ==
    /\ \A k \in 1..(p_i - 1) : ~Malformed(criteria_list[k])
    /\ p_pc = "raised" => p_error = criteria_list[p_i]

Last(s) == s[Len(s)]

Sent(c, req) == {k \in 1..Len(u_sent[c]) : u_sent[c][k].req = req}

\* every field of fetched outside updates and outside except has its
\* fetched value in doc
Preserved(fetched, updates, doc, except) ==
    \A f \in DOMAIN fetched \ (DOMAIN updates \cup except) :
        f \in DOMAIN doc /\ doc[f] = fetched[f]

Merging(c) == u_pc[c] \in {"fetched", "put_done", "returned"}

\* C2 as stated: every fetched field that updates does not name, updated_at
\* included, has its fetched value in the document put and returned
C2_AllUnnamedFieldsPreserved ==
    \A c \in Clients :
        /\ Merging(c) => Preserved(u_fetched[c], u_updates[c], u_doc[c], {})
        /\ \A k \in Sent(c, "put") :
              Preserved(u_fetched[c], u_updates[c], u_sent[c][k].doc, {})

\* C2 (amended): every fetched field that updates does not name, other than
\* updated_at, has its fetched value in the merged document, in the document
\* put to the primary store and in the document returned
C2_UnnamedFieldsPreserved ==
    \A c \in Clients :
        /\ Merging(c) => Preserved(u_fetched[c], u_updates[c], u_doc[c], {"updated_at"})
        /\ \A k \in Sent(c, "put") :
              Preserved(u_fetched[c], u_updates[c], u_sent[c][k].doc, {"updated_at"})

C2_Witness ==
    \E c \in Clients :
        /\ u_pc[c] = "returned"
        /\ DOMAIN u_updates[c] = {"status"}
        /\ u_doc[c]["priority"] = <<"N">>
        /\ u_doc[c]["status"] # u_fetched[c]["status"]
        /\ Sent(c, "put") # {}

\* C3: a successful put stores the client's whole merged copy of its earlier
\* fetch as the entry, whatever the store held at that moment, and reports
\* no error to any client
C3_PutOverwritesWithStaleCopy ==
    [][\A c \in Clients :
          (u_pc[c] = "fetched" /\ u_pc'[c] = "put_done")
          => /\ kbmetadata'[u_doc[c]["_id"]] = u_doc[c]
             /\ Preserved(u_fetched[c], u_updates[c], kbmetadata'[u_doc[c]["_id"]], {"updated_at"})
             /\ u_err' = u_err]_vars

\* the second client's status change, put with success after the first
\* client's fetch, is gone from the entry after the first client's put
C3_Witness ==
    /\ u_pc["c1"] = "returned" /\ u_pc["c2"] = "returned"
    /\ u_id["c1"] = "m1" /\ u_id["c2"] = "m1"
    /\ DOMAIN u_updates["c1"] = {"priority"}
    /\ DOMAIN u_updates["c2"] = {"status"}
    /\ u_fetched["c1"]["status"] = <<"N">>
    /\ kbmetadata["m1"]["status"] = <<"N">>
    /\ kbmetadata["m1"] = u_doc["c1"]
    /\ \A c \in Clients : u_err[c] = "" /\ \A k \in 1..Len(u_sent[c]) : u_sent[c][k].ok

MirrorFailed(c) ==
    /\ u_sent[c] # <<>>
    /\ Last(u_sent[c]).req = "sql"
    /\ ~Last(u_sent[c]).ok

\* C4: when the mirror statement fails after a successful put, the call
\* returns its merged document with no error, and the step leaves the
\* primary store as it was
C4_MirrorFailureSwallowed ==
    [][\A c \in Clients :
          (u_pc[c] = "put_done" /\ MirrorFailed(c)')
          => /\ u_pc'[c] = "returned"
             /\ u_err'[c] = ""
             /\ u_doc'[c] = u_doc[c]
             /\ u_doc[c] = DictSet(DictUpdate(u_fetched[c], u_updates[c]),
                                   "updated_at", u_doc[c]["updated_at"])
             /\ kbmetadata' = kbmetadata]_vars

C4_Witness ==
    /\ u_pc["c1"] = "returned"
    /\ MirrorFailed("c1")
    /\ u_id["c1"] = "m1"
    /\ u_pc["c2"] = "idle"
    /\ kbmetadata["m1"] = u_doc["c1"]
    /\ kbmetadata["m1"]["status"] = <<"A">>
    /\ metadata_catalog["m1"]["status"] = <<"N">>

\* the response of the fetch holds no entry: empty data, or an empty first
\* entry
FoundNothing(c) ==
    /\ u_sent[c] # <<>>
    /\ u_sent[c][1].ok
    /\ \/ u_sent[c][1].data.items = <<>>
       \/ DOMAIN u_sent[c][1].data.items[1] = {}

\* C7: a fetch that finds no entry makes the call fail with not-found
\* having sent the query alone, and leaves both stores as they were
C7_NotFoundWritesNothing ==
    /\ [](\A c \in Clients :
            FoundNothing(c)
            => /\ u_pc[c] = "raised"
               /\ u_err[c] = "notfound"
               /\ Len(u_sent[c]) = 1)
    /\ [][\A c \in Clients :
            (u_pc[c] = "idle" /\ FoundNothing(c)')
            => /\ kbmetadata' = kbmetadata
               /\ metadata_catalog' = metadata_catalog]_vars

C7_Witness ==
    \E c \in Clients :
        /\ FoundNothing(c)
        /\ u_sent[c][1].data.kind = "list"
        /\ u_sent[c][1].data.items = <<EmptyDict>>
        /\ u_id[c] = "m9"
        /\ u_err[c] = "notfound"

\* C10: the SQL record step 7 compares has the identifier of the primary
\* entry it is compared with
C10_SameEntryCompared ==
    (v_pc = "done" /\ DOMAIN v_sr # {} /\ DOMAIN v_orbit_entry # {})
    => v_sr["id"] = v_orbit_entry["_id"]

\* the data of a response holds an entry: it is not empty and its first
\* entry is not empty
HoldsEntry(data) == data.items # <<>> /\ DOMAIN data.items[1] # {}

IsQuery(e) == e.ev = "query"

\* C5: the call returns an entry exactly at the first query whose result
\* holds one: that query ends the log (no sleep or query after it), its
\* first entry is the value returned, and before it the log alternates a
\* query with an empty result and one sleep of poll_interval
C5_ReturnsAtFirstNonEmptyQuery ==
    /\ \A k \in 1..Len(w_log) :
          (IsQuery(w_log[k]) /\ w_log[k].ok /\ HoldsEntry(w_log[k].data))
          => /\ k = Len(w_log)
             /\ w_pc = "returned"
             /\ w_result = Found(w_log[k].data.items[1])
    /\ (w_pc = "returned" /\ w_result.found)
       => /\ Len(w_log) % 2 = 1
          /\ IsQuery(w_log[Len(w_log)]) /\ HoldsEntry(w_log[Len(w_log)].data)
          /\ \A k \in 1..(Len(w_log) - 1) :
                IF k % 2 = 1
                THEN IsQuery(w_log[k]) /\ w_log[k].ok /\ ~HoldsEntry(w_log[k].data)
                ELSE w_log[k] = SleepEvent(w_poll)

\* the entry is returned by the second query, after one empty query and
\* one sleep
C5_Witness ==
    /\ w_pc = "returned"
    /\ w_result.found
    /\ w_result.entry["associated_id"] = template_id
    /\ Len(w_log) = 3

\* C6: a loop test made when the elapsed time has reached timeout_seconds
\* ends the call with None and no error; None is returned only then; and
\* the only error a call ends with is the transport failure of a query
C6_TimeoutReturnsNone ==
    /\ [](w_err \in {"", "transport"})
    /\ []((w_pc = "raised") => (~Last(w_log).ok /\ w_err = "transport"))
    /\ []((w_pc = "returned" /\ ~w_result.found) => (now - w_start >= w_timeout /\ w_err = ""))
    /\ [][(w_pc = "test" /\ w_pc' # "test" /\ now - w_start >= w_timeout)
          => (w_pc' = "returned" /\ w_result' = None /\ w_err' = "")]_vars

\* the deadline passes while the server answers every query, with no entry
C6_Witness ==
    /\ w_pc = "returned"
    /\ ~w_result.found
    /\ w_timeout > 0
    /\ now - w_start > w_timeout
    /\ Len(w_log) >= 4
    /\ \A k \in 1..Len(w_log) : w_log[k].ok

\* C8 as stated: a run whose input file is missing sends no request at all
\* and ends with a file-not-found error
C8_MissingFileFailsBeforeNetwork ==
    (c_cmd.file = MissingFile)
    => /\ c_net = <<>>
       /\ c_pc = "exited" => c_err = "FileNotFoundError"

\* C8 (amended): a run whose input file is missing (and whose path is not
\* itself JSON text) never sends a write or upload request. upload fails
\* with FileNotFoundError before any request; create and update fail before
\* any request with the JSON parse error of the argument text (update with
\* the ValueError of its criteria, if they are malformed); batch import,
\* after the health check of batch main, prints "File not found" and ends
\* normally without a create call
C8_MissingFileSendsNoWrite ==
    (c_cmd.file = MissingFile)
    => /\ \A k \in 1..Len(c_net) : c_net[k].verb = "GET agent/status"
       /\ c_cmd.prog = "client" => c_net = <<>>
       /\ c_pc = "exited" =>
            /\ c_cmd.name = "upload" => (c_err = "FileNotFoundError" /\ c_exit = 1)
            /\ c_cmd.name = "create" => (c_err = "JSONDecodeError" /\ c_exit = 1)
            /\ c_cmd.name = "update" =>
                  /\ c_exit = 1
                  /\ c_err = IF parse_criteria(c_cmd.crit).raised
                             THEN "ValueError" ELSE "JSONDecodeError"
            /\ c_cmd.name = "import" =>
                  /\ Len(c_net) = 1
                  /\ c_err = ""
                  /\ IF c_net[1].ok
                     THEN c_msg = "File not found" /\ c_exit = 0
                     ELSE c_msg = "" /\ c_exit = 1

C8_Witness ==
    /\ c_cmd.file = MissingFile
    /\ c_cmd.name = "import"
    /\ c_pc = "exited"
    /\ c_msg = "File not found"
    /\ Len(c_net) = 1

\* the create calls of an import run: the requests after the health check
Pages == Tail(c_net)

\* C9: the k-th create call of import_from_json carries documents
\* 100(k-1)+1 .. min(100k, N) of the list, whatever the earlier calls'
\* outcomes; when the import has completed there are ceil(N/100) calls and
\* every document is in exactly one of them
C9_ImportPages ==
    (c_cmd.name = "import" /\ (c_pc = "loop" \/ c_msg = "Import completed"))
    => LET N == Len(documents) IN
       /\ \A k \in 1..Len(Pages) :
             /\ Pages[k].verb = "crudput"
             /\ Pages[k].docs = SubSeq(documents, 100 * (k - 1) + 1, Min(100 * k, N))
             /\ Len(Pages[k].docs) \in 1..100
       /\ c_msg = "Import completed" =>
             /\ Len(Pages) = (N + 99) \div 100
             /\ \A d \in 1..N :
                   Cardinality({k \in 1..Len(Pages) :
                                  \E j \in 1..Len(Pages[k].docs) :
                                     Pages[k].docs[j] = documents[d]}) = 1

\* three pages, the second of which failed
C9_Witness ==
    /\ c_cmd.name = "import"
    /\ c_msg = "Import completed"
    /\ Len(documents) = 201
    /\ Len(Pages) = 3
    /\ ~Pages[2].ok
    /\ Pages[3].ok
    /\ Pages[3].docs = <<201>>

\* the text step 7 compares for a field: str() of the value, '' if missing
ComparedText(entry, f) == IF f \in DOMAIN entry THEN PyStr(entry[f]) ELSE <<>>

\* the fields of the fixed set whose compared texts differ
Differing(a, b) ==
    {f \in {"status", "priority", "geo_location", "processing_status"} :
        ComparedText(a, f) # ComparedText(b, f)}

\* C11: when step 7 has compared the two entries, the mismatches it reports
\* are exactly the fields of the fixed set whose values differ as strings
\* (a missing field read as ''), each once; it reports 'in sync' iff there
\* is none; entries with status ACTIVE and PENDING and otherwise equal give
\* the one mismatch on status
C11_MismatchesExact ==
    (v_pc = "done" /\ v_report \in {"insync", "mismatch"})
    => /\ {v_mismatches[k] : k \in 1..Len(v_mismatches)} = Differing(v_orbit_entry, v_sr)
       /\ Len(v_mismatches) = Cardinality(Differing(v_orbit_entry, v_sr))
       /\ v_report = "insync" <=> v_mismatches = <<>>
       /\ (/\ ComparedText(v_orbit_entry, "status") = <<"A">>
           /\ ComparedText(v_sr, "status") = <<"P">>
           /\ \A f \in {"priority", "geo_location", "processing_status"} :
                 ComparedText(v_orbit_entry, f) = ComparedText(v_sr, f))
          => v_mismatches = <<"status">>

\* ACTIVE against PENDING, the priorities an int and the same digits as text
C11_Witness ==
    /\ v_pc = "done"
    /\ v_report = "mismatch"
    /\ v_mismatches = <<"status">>
    /\ "status" \in DOMAIN v_orbit_entry /\ v_orbit_entry["status"] = <<"A">>
    /\ "status" \in DOMAIN v_sr /\ v_sr["status"] = <<"P">>
    /\ "priority" \in DOMAIN v_orbit_entry /\ v_orbit_entry["priority"] = PyInt(<<"5">>)
    /\ "priority" \in DOMAIN v_sr /\ v_sr["priority"] = <<"5">>

\* C12 as stated: delete-all sends a request only with --confirm or the
\* answer "yes"; any other answer sends nothing and ends as cancelled
C12_DeleteAllNeedsYes ==
    (c_cmd.name = "delete-all")
    => /\ c_net # <<>> => (c_cmd.confirm \/ c_cmd.stdin = <<"y", "e", "s">>)
       /\ (/\ c_pc = "exited"
           /\ ~c_cmd.confirm
           /\ c_cmd.stdin \notin {<<"y", "e", "s">>, EndOfInput})
          => (c_net = <<>> /\ c_msg = "Cancelled")

\* the word yes in any letter case
YesAnyCase ==
    {<<a, b, c>> : a \in {"y", "Y"}, b \in {"e", "E"}, c \in {"s", "S"}}

\* C12 (amended): delete-all sends its delete request only with --confirm
\* or an answer that is the word yes in any letter case, and then it sends
\* exactly that one request; with any other answer it sends nothing and
\* ends as cancelled with exit status 0; when the input ends without an
\* answer it sends nothing and fails
C12_DeleteAllNeedsYesAnyCase ==
    (c_cmd.name = "delete-all")
    => /\ c_net # <<>> => (c_cmd.confirm \/ c_cmd.stdin \in YesAnyCase)
       /\ c_pc = "exited" =>
            IF c_cmd.confirm \/ c_cmd.stdin \in YesAnyCase
            THEN Len(c_net) = 1 /\ c_net[1].verb = "cruddelete" /\ c_msg = ""
            ELSE IF c_cmd.stdin = EndOfInput
            THEN c_net = <<>> /\ c_exit = 1 /\ c_msg = ""
            ELSE c_net = <<>> /\ c_msg = "Cancelled" /\ c_exit = 0

\* the answer YES, without --confirm, has sent the request
C12_Witness ==
    /\ c_cmd.name = "delete-all"
    /\ ~c_cmd.confirm
    /\ c_cmd.stdin = <<"Y", "E", "S">>
    /\ c_pc = "exited"
    /\ Len(c_net) = 1

\* a JSON argument that parse_json_arg cannot read
JsonArgFails(file) ==
    (file.exists /\ ~file.content_ok) \/ (~file.exists /\ ~file.text_json)

\* the run of a client command met a failure: a request failed, the file of
\* upload is missing or not YAML, a JSON argument does not parse, a
\* criteria token has no colon, or the prompt of delete-all met the end of
\* the input
CommandFailed ==
    \/ \E k \in 1..Len(c_net) : ~c_net[k].ok
    \/ c_cmd.name = "upload" /\ (~c_cmd.file.exists \/ ~c_cmd.file.content_ok)
    \/ c_cmd.name = "create" /\ JsonArgFails(c_cmd.file)
    \/ c_cmd.name = "update" /\ JsonArgFails(c_cmd.file)
    \/ /\ c_cmd.name \in {"update", "get", "delete"}
       /\ \E k \in 1..Len(c_cmd.crit) : NumSegments(c_cmd.crit[k]) < 2
    \/ c_cmd.name = "delete-all" /\ ~c_cmd.confirm /\ c_cmd.stdin = EndOfInput

\* C13: a client command that has ended has exit status 1 if it met a
\* failure (the failed health check of the health command included) and 0
\* otherwise
C13_ExitStatus ==
    (c_cmd.prog = "client" /\ c_pc = "exited")
    => c_exit = IF CommandFailed THEN 1 ELSE 0

\* the health command whose check failed: no error raised, exit status 1
C13_Witness ==
    /\ c_cmd.name = "health"
    /\ c_pc = "exited"
    /\ Len(c_net) = 1 /\ ~c_net[1].ok
    /\ c_err = ""
    /\ c_exit = 1

\* all the colon-separated segments of a token
Segments(item) == Split(item, ":", Len(item))

\* the call has returned for a list of the one token, which has n segments
ReturnedOne(n) ==
    /\ p_pc = "returned"
    /\ Len(criteria_list) = 1
    /\ Len(Segments(criteria_list[1])) = n

\* C14: a single three-part token f:v:op whose v parses as an integer gives
\* [{f: {"$op": n}}] with n the int value of v
C14_IntegerValue ==
    (ReturnedOne(3) /\ IntParses(Segments(criteria_list[1])[2]))
    => LET seg == Segments(criteria_list[1]) IN
       p_result = <<[x \in {seg[1]} |->
                       [form |-> "op", op |-> <<"$">> \o seg[3],
                        val |-> [kind |-> "int", str |-> <<>>,
                                 num |-> IntOf(seg[2]), scale |-> 0]]]>>

\* the token f:-3:gt gave the int -3
C14_Witness ==
    /\ ReturnedOne(3)
    /\ Segments(criteria_list[1])[2] = <<"-", "3">>
    /\ p_result[1][Segments(criteria_list[1])[1]].val.kind = "int"
    /\ p_result[1][Segments(criteria_list[1])[1]].val.num = -3

\* C15: a single two-part token f:v gives [{f: v}], v the string itself
C15_TwoPartKeepsString ==
    ReturnedOne(2)
    => LET seg == Segments(criteria_list[1]) IN
       p_result = <<[x \in {seg[1]} |->
                       [form |-> "plain", op |-> <<>>,
                        val |-> [kind |-> "str", str |-> seg[2], num |-> 0, scale |-> 0]]]>>

\* the token f:7 gave the string "7"
C15_Witness ==
    /\ ReturnedOne(2)
    /\ Segments(criteria_list[1])[2] = <<"7">>
    /\ p_result[1][Segments(criteria_list[1])[1]].val.kind = "str"
    /\ p_result[1][Segments(criteria_list[1])[1]].val.str = <<"7">>

\* C16: a single three-part token f:v:op whose v parses neither as int nor
\* as float gives [{f: {"$op": v}}], v the string itself
C16_NonNumericKeepsString ==
    (/\ ReturnedOne(3)
     /\ ~IntParses(Segments(criteria_list[1])[2])
     /\ ~FloatParses(Segments(criteria_list[1])[2]))
    => LET seg == Segments(criteria_list[1]) IN
       p_result = <<[x \in {seg[1]} |->
                       [form |-> "op", op |-> <<"$">> \o seg[3],
                        val |-> [kind |-> "str", str |-> seg[2], num |-> 0, scale |-> 0]]]>>

\* the token f:ab:gt gave the string "ab"
C16_Witness ==
    /\ ReturnedOne(3)
    /\ Segments(criteria_list[1])[2] = <<"a", "b">>
    /\ p_result[1][Segments(criteria_list[1])[1]].val.kind = "str"
    /\ p_result[1][Segments(criteria_list[1])[1]].val.str = <<"a", "b">>

\* the translation of one valid token
ExpectedEntry(item) ==
    LET seg == Segments(item) IN
    IF Len(seg) = 2
    THEN [form |-> "plain", op |-> <<>>,
          val |-> [kind |-> "str", str |-> seg[2], num |-> 0, scale |-> 0]]
    ELSE [form |-> "op", op |-> <<"$">> \o seg[3],
          val |-> IF IntParses(seg[2])
                  THEN [kind |-> "int", str |-> <<>>, num |-> IntOf(seg[2]), scale |-> 0]
                  ELSE IF FloatParses(seg[2])
                  THEN [kind |-> "float", str |-> <<>>,
                        num |-> FloatOf(seg[2]).num, scale |-> FloatOf(seg[2]).scale]
                  ELSE [kind |-> "str", str |-> seg[2], num |-> 0, scale |-> 0]]

\* every token of the list has two or three segments
AllValid == \A k \in 1..Len(criteria_list) : Len(Segments(criteria_list[k])) \in {2, 3}

\* the position of the last token that names field f
LastNaming(f) ==
    CHOOSE k \in 1..Len(criteria_list) :
        /\ Segments(criteria_list[k])[1] = f
        /\ \A j \in (k + 1)..Len(criteria_list) : Segments(criteria_list[j])[1] # f

\* C17: for a list of valid tokens the call returns one mapping in a list:
\* its fields are the fields the tokens name, each with the translation of
\* the last token naming it; the empty list of tokens gives the empty list
C17_LastWriteWins ==
    (p_pc = "returned" /\ AllValid)
    => IF criteria_list = <<>> THEN p_result = <<>>
       ELSE /\ Len(p_result) = 1
            /\ DOMAIN p_result[1] =
                  {Segments(criteria_list[k])[1] : k \in 1..Len(criteria_list)}
            /\ \A f \in DOMAIN p_result[1] :
                  p_result[1][f] = ExpectedEntry(criteria_list[LastNaming(f)])

\* a field named by a three-part token and then by a two-part token
C17_Witness ==
    /\ p_pc = "returned"
    /\ Len(criteria_list) = 2
    /\ Len(Segments(criteria_list[1])) = 3
    /\ Len(Segments(criteria_list[2])) = 2
    /\ Segments(criteria_list[1])[1] = Segments(criteria_list[2])[1]
    /\ Segments(criteria_list[1])[2] # Segments(criteria_list[2])[2]
    /\ p_result[1][Segments(criteria_list[2])[1]] = ExpectedEntry(criteria_list[2])

\* C18: an upload of a file whose content is not YAML sends no request and
\* ends with the parse error
C18_BadYamlSendsNothing ==
    (c_cmd.name = "upload" /\ c_cmd.file.exists /\ ~c_cmd.file.content_ok)
    => /\ c_net = <<>>
       /\ c_pc = "exited" => (c_err = "YAMLError" /\ c_exit = 1)

C18_Witness ==
    /\ c_cmd.name = "upload"
    /\ c_cmd.file = BadFile
    /\ c_pc = "exited"
    /\ c_err = "YAMLError"

\* the names a list holds
Names(list) == {list[k] : k \in 1..Len(list)}

\* C19: the report of verify_48_columns has ok true iff every name of the
\* reference list is among the table's columns; present and missing are
\* disjoint and together hold the 48 reference names, each once; and the
\* call has sent the schema read and nothing else
C19_SchemaReport ==
    /\ s_pc = "returned" =>
         /\ s_result.ok <=> Names(expected) \subseteq Names(s_columns)
         /\ Names(s_result.present) \cap Names(s_result.missing) = {}
         /\ Names(s_result.present) \cup Names(s_result.missing) = Names(expected)
         /\ Len(s_result.present) + Len(s_result.missing) = 48
         /\ Cardinality(Names(expected)) = 48
         /\ Names(s_result.present) = Names(expected) \cap Names(s_columns)
    /\ \A k \in 1..Len(s_sent) : s_sent[k].sql = "PRAGMA table_info(metadata_catalog)"
    /\ Len(s_sent) <= 1

\* a table of 48 columns, one reference name missing and one other column
C19_Witness ==
    /\ s_pc = "returned"
    /\ Len(s_columns) = 48
    /\ s_result.missing = <<"geo_location">>
    /\ "legacy_flag" \in Names(s_columns)
    /\ ~s_result.ok

\* client c has run one update to its end, the put and the mirror statement
\* both succeeded, and no other client has started a call
UpdatedAlone(c) ==
    /\ u_pc[c] = "returned"
    /\ \A d \in Clients \ {c} : u_pc[d] = "idle"
    /\ Len(u_sent[c]) = 3
    /\ u_sent[c][2].req = "put" /\ u_sent[c][2].ok
    /\ u_sent[c][3].req = "sql" /\ u_sent[c][3].ok

MirrorLost(c) ==
    /\ u_pc[c] = "returned"
    /\ Len(u_sent[c]) = 3
    /\ u_sent[c][2].req = "put" /\ u_sent[c][2].ok
    /\ u_sent[c][3].req = "sql" /\ ~u_sent[c][3].ok

\* the entry and the row of id hold different texts in field f
Differ(store, catalog, id, f) ==
    /\ id \in DOMAIN store /\ id \in DOMAIN catalog
    /\ ComparedText(store[id], f) # ComparedText(catalog[id], f)

\* the step sends a request of client d's call
Sends(d, req) ==
    /\ Len(u_sent'[d]) = Len(u_sent[d]) + 1
    /\ Last(u_sent'[d]).req = req

\* C21 as stated: once a call has returned with its put done and its mirror
\* statement failed, a field it named on which the stores disagree stays in
\* disagreement until another update that names the field has its mirror
\* statement succeed
C21_DivergedUntilMirrorSucceeds ==
    [][\A c \in Clients : \A f \in UpdFields :
          (/\ MirrorLost(c)
           /\ f \in DOMAIN u_updates[c]
           /\ Differ(kbmetadata, metadata_catalog, u_id[c], f)
           /\ ~Differ(kbmetadata', metadata_catalog', u_id[c], f))
          => \E d \in Clients \ {c} :
                /\ f \in DOMAIN u_updates[d]
                /\ Sends(d, "sql")
                /\ Last(u_sent'[d]).ok]_vars

\* C21 (amended): a mirror statement that fails without effect after the
\* put ends the call and leaves the stores in disagreement on every named
\* field whose new text the row did not hold; the call sends nothing
\* afterwards; and such a disagreement ends only in a step of another call
\* that writes one of the stores: its put, or its mirror statement, which
\* names the field
C21_DivergedUntilAnotherWrite ==
    [][\A c \in Clients :
          /\ (/\ u_pc[c] = "put_done"
              /\ MirrorFailed(c)'
              /\ metadata_catalog' = metadata_catalog)
             => /\ MirrorLost(c)'
                /\ kbmetadata[u_id[c]] = u_doc[c]
                   => \A f \in DOMAIN u_updates[c] \ {"updated_at"} :
                         PyStr(u_updates[c][f]) # ComparedText(metadata_catalog[u_id[c]], f)
                         => Differ(kbmetadata', metadata_catalog', u_id[c], f)
          /\ MirrorLost(c) => (u_sent'[c] = u_sent[c] /\ u_pc'[c] = "returned")
          /\ \A f \in UpdFields :
                (/\ MirrorLost(c)
                 /\ f \in DOMAIN u_updates[c]
                 /\ Differ(kbmetadata, metadata_catalog, u_id[c], f)
                 /\ ~Differ(kbmetadata', metadata_catalog', u_id[c], f))
                => \E d \in Clients \ {c} :
                      \/ Sends(d, "put")
                      \/ Sends(d, "sql") /\ f \in DOMAIN u_updates[d] \cup {"updated_at"}]_vars

\* the first client's status change is in the primary store only, and the
\* second client's put of its older copy has taken it back
C21_Witness ==
    /\ MirrorLost("c1")
    /\ "status" \in DOMAIN u_updates["c1"]
    /\ u_id["c1"] = "m1"
    /\ u_pc["c2"] = "put_done"
    /\ "status" \notin DOMAIN u_updates["c2"]
    /\ kbmetadata["m1"]["status"] = <<"N">>
    /\ metadata_catalog["m1"]["status"] = <<"N">>

\* the commands of the five CRUD operations
CrudVerbs == {"crudget", "crudput", "crudupdate", "cruddelete"}

\* C22: every CRUD request a client command sends names the datastore the
\* caller selected with --dstype
C22_RequestNamesDstype ==
    c_cmd.prog = "client"
    => \A k \in 1..Len(c_net) :
          c_net[k].verb \in CrudVerbs => c_net[k].dstype = c_cmd.dstype

\* the filter C23 describes for the arguments of the call
ExpectedFilter ==
    IF g_args.criteria.given THEN g_args.criteria.q
    ELSE IF g_args.metadata_id # ""
    THEN <<[field |-> "_id", operator |-> "==", value |-> g_args.metadata_id]>>
    ELSE IF g_args.associated_id # ""
    THEN <<[field |-> "associated_id", operator |-> "==", value |-> g_args.associated_id]>>
    ELSE <<>>

\* C23: a get_metadata call that has ended has sent exactly one query, to
\* kbmetadata, with the filter chosen by the precedence criteria, then
\* metadata_id, then associated_id, then none; before that nothing is sent
C23_FilterPrecedence ==
    /\ g_pc \in {"off", "start"} => g_sent = <<>>
    /\ g_pc \in {"returned", "raised"} =>
         /\ Len(g_sent) = 1
         /\ g_sent[1].cmd = "query"
         /\ g_sent[1].dstype = "kbmetadata"
         /\ g_sent[1].criteria = ExpectedFilter

\* an empty criteria list has overridden both identifiers
C23_Witness ==
    /\ g_pc = "returned"
    /\ g_args.criteria = [given |-> TRUE, q |-> <<>>]
    /\ g_args.metadata_id = "m1"
    /\ g_args.associated_id = "t1"
    /\ g_sent[1].criteria = <<>>
    /\ g_data.kind = "list" /\ Len(g_data.items) = 2

\* the kinds of request a call has sent, in order
Kinds(c) == [k \in 1..Len(u_sent[c]) |-> u_sent[c][k].req]

IsPrefix(s, t) == Len(s) <= Len(t) /\ s = SubSeq(t, 1, Len(s))

\* the fetch of the call failed: in transport, or by finding no entry
FetchFailed(c) ==
    /\ Len(u_sent[c]) >= 1
    /\ ~u_sent[c][1].ok \/ NoEntry(Entries(u_sent[c][1].data))

PutFailed(c) == Len(u_sent[c]) >= 2 /\ ~u_sent[c][2].ok

\* C24: a call sends fetch, put and mirror in this order; the document put
\* is the fetched entry with the updates merged and then the timestamp set;
\* the mirror statement follows a put that succeeded only; a failed fetch or
\* put raises with no mirror statement sent; a call that returns returns the
\* document it put
C24_FetchMergePutMirror ==
    \A c \in Clients :
        /\ IsPrefix(Kinds(c), <<"query", "put", "sql">>)
        /\ Len(u_sent[c]) >= 2 =>
             /\ ~FetchFailed(c)
             /\ \E t \in 0..now :
                  u_sent[c][2].doc =
                     DictSet(DictUpdate(Entries(u_sent[c][1].data)[1], u_updates[c]),
                             "updated_at", Stamp(t))
        /\ Len(u_sent[c]) = 3 => u_sent[c][2].ok
        /\ FetchFailed(c) \/ PutFailed(c) =>
             /\ u_pc[c] = "raised"
             /\ u_err[c] # ""
             /\ ~\E k \in 1..Len(u_sent[c]) : u_sent[c][k].req = "sql"
        /\ u_pc[c] = "returned" => Len(u_sent[c]) = 3 /\ u_doc[c] = u_sent[c][2].doc

\* one call has returned after its three requests, another was ended by its put
C24_Witness ==
    /\ u_pc["c1"] = "returned"
    /\ Kinds("c1") = <<"query", "put", "sql">>
    /\ u_doc["c1"] = u_sent["c1"][2].doc
    /\ u_pc["c2"] = "raised"
    /\ PutFailed("c2")

\* the positions of the assignments to updated_at in a statement
StampClauses(sql) == {k \in 1..Len(sql.set) : sql.set[k].col = "updated_at"}

Greatest(S) == CHOOSE k \in S : \A j \in S : j <= k

\* what C28 says of a call that has returned
StampedThroughout(c) ==
    LET put == u_sent[c][2].doc
        sql == u_sent[c][3].sql
    IN /\ \E t \in 0..now : u_doc[c]["updated_at"] = Stamp(t)
       /\ put["updated_at"] = u_doc[c]["updated_at"]
       /\ StampClauses(sql) # {}
       /\ sql.set[Greatest(StampClauses(sql))].lit = u_doc[c]["updated_at"]

\* C28: the merge step sets updated_at of the document to the client's
\* clock reading at that moment, whatever the fetched entry and the updates
\* hold; the document keeps it until the call ends; and in a call that has
\* returned the document put, the document returned and the last updated_at
\* assignment of the mirror statement carry that value
C28_ClientStamp ==
    [][\A c \in Clients :
          /\ (u_pc[c] = "idle" /\ u_pc'[c] = "fetched")
               => u_doc'[c]["updated_at"] = Stamp(now)
          /\ u_pc[c] \in {"fetched", "put_done"} => u_doc'[c] = u_doc[c]
          /\ u_pc'[c] = "returned" => StampedThroughout(c)']_vars

\* a call has returned whose updates named updated_at and whose fetched
\* entry held an older timestamp
C28_Witness ==
    /\ u_pc["c1"] = "returned"
    /\ "updated_at" \in DOMAIN u_updates["c1"]
    /\ u_updates["c1"]["updated_at"] = <<"X">>
    /\ u_fetched["c1"]["updated_at"] = Stamp(0)
    /\ u_doc["c1"]["updated_at"] = Stamp(1)
    /\ kbmetadata[u_id["c1"]]["updated_at"] = Stamp(1)
    /\ Cardinality(StampClauses(u_sent["c1"][3].sql)) = 2

\* the fields a call changes besides the timestamp
Changed(c) == DOMAIN u_updates[c] \ {"updated_at"}

\* calls c and d on one entry, over disjoint fields, each fetching the entry
\* before either put and d putting last, have returned with every write done
Interleaved(c, d) ==
    /\ c # d
    /\ u_pc[c] = "returned" /\ u_pc[d] = "returned"
    /\ u_id[c] = u_id[d]
    /\ DOMAIN u_updates[c] \cap DOMAIN u_updates[d] = {}
    /\ Changed(c) # {} /\ Changed(d) # {}
    /\ u_fetched[c] = NewDoc(u_id[c]) /\ u_fetched[d] = NewDoc(u_id[d])
    /\ \A k \in 2..3 : u_sent[c][k].ok /\ u_sent[d][k].ok
    /\ kbmetadata[u_id[d]] = u_doc[d]

\* C29: after two calls interleaved as fetch, fetch, put, put over disjoint
\* fields with no write failing, the mirror row holds the changes of both
\* calls and the primary entry those of the later put only, the fields of
\* the earlier one being back at the fetched values: the stores disagree
C29_InterleavedCallsDiverge ==
    \A c \in Clients, d \in Clients :
        Interleaved(c, d)
        => LET entry == kbmetadata[u_id[c]]
               row == metadata_catalog[u_id[c]]
           IN /\ \A f \in Changed(d) :
                    entry[f] = u_updates[d][f] /\ row[f] = PyStr(u_updates[d][f])
              /\ \A f \in Changed(c) :
                    /\ row[f] = PyStr(u_updates[c][f])
                    /\ entry[f] = u_fetched[d][f]
                    /\ PyStr(entry[f]) # row[f]

\* c1 changed status, c2 priority, c2 put last: the row has both, the
\* entry has lost the status
C29_Witness ==
    /\ Interleaved("c1", "c2")
    /\ Changed("c1") = {"status"} /\ Changed("c2") = {"priority"}
    /\ metadata_catalog["m1"]["status"] = <<"A">>
    /\ metadata_catalog["m1"]["priority"] = <<"N", "o", "n", "e">>
    /\ kbmetadata["m1"]["status"] = <<"N">>
    /\ kbmetadata["m1"]["priority"] = PyNone

\* the queries the call has sent
NumQueries == Cardinality({k \in 1..Len(w_log) : w_log[k].ev = "query"})

\* ceil(a / b) for a >= 0 and b > 0
CeilDiv(a, b) == (a + b - 1) \div b

WaitEnded == w_pc \in {"returned", "raised"}

\* C25: the call sends at most ceil(timeout_seconds / poll_interval)
\* queries, it ends (returned or raised), and once ended none of its
\* variables changes again
C25_BoundedPollLoop ==
    /\ [](NumQueries <= CeilDiv(w_timeout, w_poll))
    /\ <>WaitEnded
    /\ [][WaitEnded => UNCHANGED waitVars]_vars

\* a call has ended with None after as many queries as the bound allows,
\* more than one
C25_Witness ==
    /\ w_pc = "returned" /\ w_result = None
    /\ w_timeout = 3 /\ w_poll = 2
    /\ NumQueries = 2

\* the step in which a query's response arrives with an entry
EntryArrives ==
    /\ w_pc = "query"
    /\ Len(w_log') = Len(w_log) + 1
    /\ Last(w_log').ok /\ HoldsEntry(Last(w_log').data)

\* C26: a query is started only by a loop test made before the deadline,
\* and nothing is sent but by a started query; with timeout_seconds <= 0
\* the call sends nothing and ends with None; an entry that arrives is
\* returned whatever the clock shows by then
C26_DeadlineTestedBeforeQuery ==
    /\ [][(w_pc # "query" /\ w_pc' = "query")
            => (w_pc = "test" /\ now - w_start < w_timeout)]_vars
    /\ [][w_log' # w_log => w_pc = "query"]_vars
    /\ [](w_timeout <= 0 =>
            (w_log = <<>> /\ (WaitEnded => (w_pc = "returned" /\ w_result = None))))
    /\ [][EntryArrives
            => (w_pc' = "returned" /\ w_result' = Found(Last(w_log').data.items[1]))]_vars

\* an entry was returned by a query whose response came after the deadline
C26_Witness ==
    /\ w_pc = "returned"
    /\ w_result.found
    /\ now - w_start >= w_timeout
    /\ Len(w_log) = 3

\* a call with timeout 0 has ended
C26_ZeroTimeoutEnded == w_timeout = 0 /\ w_pc = "returned" /\ w_log = <<>> /\ now > 0

\* C27: a query of the wait that failed in transport is the last event of
\* the call: the call has raised that error, has returned nothing, and has
\* sent no query and slept no more after it
C27_TransportFailureEndsWait ==
    \A k \in 1..Len(w_log) :
        (IsQuery(w_log[k]) /\ ~w_log[k].ok)
        => /\ k = Len(w_log)
           /\ w_pc = "raised"
           /\ w_err = "transport"
           /\ w_result = None

\* the second query of a call failed, after one empty query and one sleep
C27_Witness ==
    /\ w_pc = "raised"
    /\ Len(w_log) = 3
    /\ w_log[1].ok /\ w_log[2] = SleepEvent(w_poll)
    /\ ~w_log[3].ok
    /\ now - w_start < w_timeout

\* the step sends the delete request of the cleanup
DeleteSent ==
    /\ Len(k_sent') = Len(k_sent) + 1
    /\ Last(k_sent').verb = "cruddelete"

\* C30: the cleanup sends its delete only after the query returned a
\* document and the answer was yes; the delete carries the pattern, so when
\* it has succeeded the datastore of the call holds no matching document,
\* those created after the query and never listed included
C30_CleanupDeletesByPattern ==
    [][DeleteSent
        => /\ k_documents # {}
           /\ Len(k_sent) = 1 /\ k_sent[1].verb = "crudget" /\ k_sent[1].ok
           /\ Lower(k_stdin) = <<"y", "e", "s">>
           /\ Last(k_sent').criteria = PatternCriteria
           /\ Last(k_sent').ok => ServerMatch(k_store', k_dstype) = {}]_vars

\* what the code does: the same, but the documents deleted are those of
\* the datastore the server takes for a request that names none
C30_CleanupDeletesInDefault ==
    [][DeleteSent
        => /\ k_documents # {}
           /\ Len(k_sent) = 1 /\ k_sent[1].verb = "crudget" /\ k_sent[1].ok
           /\ Lower(k_stdin) = <<"y", "e", "s">>
           /\ Last(k_sent').criteria = PatternCriteria
           /\ Last(k_sent').dstype = ""
           /\ Last(k_sent').ok => k_store' = ServerDelete(k_store, k_default)]_vars

\* a cleanup of kbdata has listed one document and, confirmed, has deleted
\* the matching documents of dsswres; kbdata still holds the one listed
C30_WrongDatastoreCleaned ==
    /\ k_pc = "returned" /\ k_msg = "Cleanup Result"
    /\ k_dstype = "kbdata" /\ k_default = "dsswres"
    /\ k_shown = 1
    /\ k_documents \subseteq k_store["kbdata"]
    /\ ServerMatch(k_store, "dsswres") = {}

====
